---- MODULE Spec2Model ----
(***************************************************************************)
(* Verification model of the Agent Credential Proxy core (acp-lib).        *)
(*                                                                         *)
(*   - SecretStore trait / FileStore / KeychainStore  (storage.rs)         *)
(*   - Registry                                        (registry.rs)       *)
(*   - TokenCache                                      (token_cache.rs)    *)
(*   - find_matching_plugin / parse_and_transform      (plugin_matcher.rs, *)
(*                                                      proxy_transforms.rs)*)
(*   - Registry migrations                             (registry.rs)       *)
(*   - PluginRuntime: sandbox and ACP.crypto.hmac      (plugin_runtime.rs) *)
(*                                                                         *)
(* and of the management API of acp-server (api.rs).                       *)
(*                                                                         *)
(* Every async fn is cut at its suspension points (.await): one action per *)
(* segment between two awaits.  Tasks run on a multi-threaded scheduler,   *)
(* so the segments of different tasks interleave freely.                   *)
(***************************************************************************)
EXTENDS Integers, Sequences, FiniteSets, TLC

(***************************************************************************)
(* Bounds                                                                  *)
(***************************************************************************)
\* number of tokens AgentToken::new may mint in one run
MaxTokens == 2

\* number of TokenCache calls issued in one concurrent run
MaxCalls == 4

\* AgentToken::new draws a fresh random uuid (id) and a fresh random
\* "acp_..." bearer value (token); the n-th token minted gets the n-th of each
IdPool == <<"u1", "u2", "u3", "u4">>
ValPool == <<"acp_1", "acp_2", "acp_3", "acp_4">>
Names == {"agent-1"}

\* concurrently running tasks
ConcTasks == {"t1", "t2"}
SeqTasks == {"t1"}
Tasks == ConcTasks

(***************************************************************************)
(* Option values                                                           *)
(***************************************************************************)
None == [some |-> FALSE]
Some(x) == [some |-> TRUE, v |-> x]

(***************************************************************************)
(* Stored bytes.  serde_json::to_vec of a value of type T yields bytes     *)
(* that serde_json::from_slice::<T> reads back as the same value and that  *)
(* fail to deserialize as any other of the program's types.                *)
(***************************************************************************)
TokenJson(tok) == [kind |-> "AgentToken", tok |-> tok]
RawBytes(b) == [kind |-> "raw", raw |-> b]

\* serde of DateTime<Utc>: an RFC 3339 string, parsed back to the instant
Rfc3339(instant) == <<"rfc3339", instant>>
ParseRfc3339(string) == string[2]

\* serde_json::to_vec(&RegistryData): an object whose arrays list the
\* entries of the three Vecs in order, each entry an object of its fields
TokenEntryJson(e) ==
    [token_value |-> e.token_value, name |-> e.name, created_at |-> Rfc3339(e.created_at)]
RegistryJson(doc) ==
    [kind |-> "RegistryData",
     json |-> [version |-> doc.version,
               tokens |-> [i \in 1..Len(doc.tokens) |-> TokenEntryJson(doc.tokens[i])],
               plugins |-> [i \in 1..Len(doc.plugins) |->
                               [name |-> doc.plugins[i].name, hosts |-> doc.plugins[i].hosts,
                                credential_schema |-> doc.plugins[i].credential_schema]],
               credentials |-> [i \in 1..Len(doc.credentials) |->
                                   [plugin |-> doc.credentials[i].plugin,
                                    field |-> doc.credentials[i].field]]]]

\* serde_json::from_slice::<RegistryData> of such an object
TokenEntryFromJson(j) ==
    [token_value |-> j.token_value, name |-> j.name, created_at |-> ParseRfc3339(j.created_at)]
RegistryFromJson(json) ==
    [version |-> json.version,
     tokens |-> [i \in 1..Len(json.tokens) |-> TokenEntryFromJson(json.tokens[i])],
     plugins |-> [i \in 1..Len(json.plugins) |->
                     [name |-> json.plugins[i].name, hosts |-> json.plugins[i].hosts,
                      credential_schema |-> json.plugins[i].credential_schema]],
     credentials |-> [i \in 1..Len(json.credentials) |->
                         [plugin |-> json.credentials[i].plugin,
                          field |-> json.credentials[i].field]]]

ParseToken(bytes) ==
    IF bytes.kind = "AgentToken" THEN [ok |-> TRUE, tok |-> bytes.tok] ELSE [ok |-> FALSE]

(***************************************************************************)
(* Store keys                                                              *)
(***************************************************************************)
KEY == <<"_registry">>
TokenKey(id) == <<"token", id>>
PluginKey(name) == <<"plugin", name>>
CredentialKey(plugin, field) == <<"credential", plugin, field>>

(***************************************************************************)
(* SecretStore trait: a key -> bytes map.                                  *)
(***************************************************************************)
StoreGet(s, k) == IF k \in DOMAIN s THEN Some(s[k]) ELSE None
StoreSet(s, k, v) == [x \in (DOMAIN s) \cup {k} |-> IF x = k THEN v ELSE s[x]]
StoreDelete(s, k) == [x \in (DOMAIN s) \ {k} |-> s[x]]
EmptyStore == [x \in {} |-> None]

(***************************************************************************)
(* Registry document                                                       *)
(***************************************************************************)
DefaultRegistryData == [version |-> 1, tokens |-> <<>>, plugins |-> <<>>, credentials |-> <<>>]

\* Registry::load
RegistryLoad(s) ==
    LET got == StoreGet(s, KEY) IN
    IF got.some
    THEN IF got.v.kind = "RegistryData"
         THEN [ok |-> TRUE, data |-> RegistryFromJson(got.v.json)]
         ELSE [ok |-> FALSE]
    ELSE [ok |-> TRUE, data |-> DefaultRegistryData]

\* Registry::save
RegistrySave(s, data) == StoreSet(s, KEY, RegistryJson(data))

Range(seq) == {seq[i] : i \in 1..Len(seq)}


\* AgentToken -> TokenEntry, as TokenCache::create builds it (the entry is
\* keyed by the token's id)
TokenEntryOf(tok) == [token_value |-> tok.id, name |-> tok.name, created_at |-> tok.created_at]

\* variant of the push that leaves out a token whose value is already listed
PushTokenUnlessPresent(data, entry) ==
    IF \E i \in 1..Len(data.tokens) : data.tokens[i].token_value = entry.token_value
    THEN data
    ELSE [data EXCEPT !.tokens = Append(@, entry)]

\* the in-memory edits of Registry::add_token / remove_token (push / retain)
PushToken(data, entry) == [data EXCEPT !.tokens = Append(@, entry)]
RetainTokens(data, token_value) ==
    [data EXCEPT !.tokens = SelectSeq(@, LAMBDA e : e.token_value # token_value)]

(***************************************************************************)
(* AgentToken::new                                                         *)
(***************************************************************************)
NoToken == [id |-> "", token |-> "", name |-> "", created_at |-> 0]
NewToken(n, name) == [id |-> IdPool[n], token |-> ValPool[n], name |-> name, created_at |-> n]

\* HashMap<String, AgentToken> as the set of its values; insert replaces the
\* entry with the same key (token.token)
MapInsert(map, tok) == {x \in map : x.token # tok.token} \cup {tok}
MapGet(map, v) == IF \E x \in map : x.token = v
                  THEN Some(CHOOSE x \in map : x.token = v)
                  ELSE None

(***************************************************************************)
(* State                                                                   *)
(***************************************************************************)
VARIABLES
    \* -- SecretStore, Registry, TokenCache and their callers
    store,        \* the SecretStore behind Registry, TokenCache and the pipeline
    cache,        \* TokenCache.cache : Option<HashMap>; None = invalidated
    pc,           \* per task: the suspension point it is parked at
    call,         \* per task: the call in progress
    frame,        \* per task: locals of the call in progress
    result,       \* per task: what the last completed call returned
    minted,       \* number of tokens AgentToken::new has produced
    created,      \* history: tokens returned by a completed create
    delCalled,    \* history: arguments of every delete that has started
    delReturned,  \* history: arguments of every delete that returned Ok
    calls,        \* number of calls issued so far (counted in concurrent runs)
    issued,       \* history: the registry mutations issued, in order of issue
    \* -- FileStore and KeychainStore seen at the level of their system calls
    backend,      \* which SecretStore create_store built: "fs" FileStore, "kc" KeychainStore
    dir,          \* FileStore base_path: file name -> inode
    inodes,       \* the files: inode -> [data, mode]; an unlinked file stays while open
    keychain,     \* the keychain items of the service: key -> password
    spc,          \* per task: position inside the store call in progress
    sop,          \* per task: the store call in progress and its locals
    sres,         \* per task: what the last completed store call returned
    shadow,       \* history, per backend: key -> value of the last set that returned Ok
    everSet,      \* history, per backend: key -> values passed to a set that has started
    delStarted,   \* history, per backend: keys passed to a delete that has started
    scalls,       \* number of store calls issued so far
    \* -- request pipeline
    ppc,          \* position of the pipeline or migration call in progress
    pin,          \* its arguments
    ploc,         \* its locals
    pres,         \* what the last completed call returned, and for which arguments
    sandbox,      \* number of live PluginRuntime values
    \* -- PluginRuntime: the JavaScript context of a plugin
    context,      \* PluginRuntime.context : the global bindings and objects; none before new
    executed,     \* what the last execute ran and returned
    executions,   \* number of execute calls so far
    runtimes,     \* the live PluginRuntime values, newest first: the globals plugin code defined in each
    dropped       \* history: the globals of the PluginRuntime dropped last

cacheVars == <<store, cache, pc, call, frame, result, minted, created, delCalled, delReturned, calls>>
regVars == <<issued>>
fsVars == <<backend, dir, inodes, keychain, spc, sop, sres, shadow, everSet, delStarted, scalls>>
jsVars == <<context, executed, executions>>
rtVars == <<runtimes, dropped>>
pipeVars == <<ppc, pin, ploc, pres, sandbox, jsVars, rtVars>>


VARIABLES
    \* -- management API (acp-server)
    password_hash, \* ApiState.password_hash : Option<String>, the Argon2 hash
    tokens,        \* ApiState.tokens : HashMap<String, AgentToken>, as the set of its values
    apc,           \* per task: position of the request handler it runs
    areq,          \* per task: the request being handled and the handler's locals
    aresp,         \* the last response sent, with the request it answers
    aminted,       \* number of tokens AgentToken::new has produced for the API
    hashWrites,    \* history: number of times password_hash has been written
    initOk,        \* history: number of POST /init answered 200
    acalls         \* number of requests received so far

apiVars == <<password_hash, tokens, apc, areq, aresp, aminted, hashWrites, initOk, acalls>>
vars == <<cacheVars, regVars, fsVars, pipeVars, apiVars>>
(***************************************************************************)
(* TokenCache: values of the state                                       *)
(***************************************************************************)
Idle == "idle"
NoCall == [op |-> "none", arg |-> ""]
NoMutation == [op |-> "none", a |-> "", b |-> ""]
EmptyFrame == [entries |-> <<>>, map |-> {}, data |-> DefaultRegistryData,
               tok |-> NoToken, existed |-> FALSE, seen0 |-> {}, gone0 |-> {},
               mut |-> NoMutation, loaded |-> DefaultRegistryData, held |-> FALSE]

\* results; must / mustnot record what the read was obliged to show
RPending == [kind |-> "pending"]
ROpt(arg, o, must, mustnot) ==
    [kind |-> "opt", arg |-> arg, opt |-> o, must |-> must, mustnot |-> mustnot]
RList(l, must, mustnot) == [kind |-> "list", list |-> l, must |-> must, mustnot |-> mustnot]
RTok(tok) == [kind |-> "token", tok |-> tok]
RBool(arg, b, held) == [kind |-> "bool", arg |-> arg, b |-> b, held |-> held]
RUnit == [kind |-> "unit"]
RErr == [kind |-> "err"]

InitCacheCalls ==
    /\ cache = None
    /\ pc = [t \in Tasks |-> Idle]
    /\ call = [t \in Tasks |-> NoCall]
    /\ frame = [t \in Tasks |-> EmptyFrame]
    /\ result = [t \in Tasks |-> RPending]
    /\ minted = 0
    /\ created = {}
    /\ delCalled = {}
    /\ delReturned = {}
    /\ calls = 0

InitCache == store = EmptyStore /\ InitCacheCalls

\* a call is issued; only concurrent runs are bounded by the call budget (the
\* sequential specification is finite without one)
Issue(mode) ==
    IF mode = "seq" THEN calls' = calls ELSE calls < MaxCalls /\ calls' = calls + 1

\* arguments a caller may pass to get_by_token / delete: ids and bearer values
\* are random, so a caller knows only those a completed create handed out
KnownIds == {tok.id : tok \in created}
KnownVals == {tok.token : tok \in created}
\* ids and bearer values of the tokens an earlier run left in the store
StoredArgs ==
    UNION {{store[k].tok.id, store[k].tok.token} :
              k \in {x \in DOMAIN store : store[x].kind = "AgentToken"}}
LookupArgs == KnownIds \cup KnownVals \cup StoredArgs \cup {"nonexistent"}
ArgPool == Range(IdPool) \cup Range(ValPool) \cup {"nonexistent"}
\* the single caller tries every argument, concurrent tasks look up bearer
\* values and delete by id
GetArgs(mode) == IF mode = "seq" THEN LookupArgs ELSE KnownVals
DelArgs(mode) == IF mode = "seq" THEN LookupArgs ELSE KnownIds

\* the answer of a read served from a loaded map
Answer(op, arg, map, must, mustnot) ==
    IF op = "list" THEN RList(map, must, mustnot)
    ELSE ROpt(arg, MapGet(map, arg), must, mustnot)

\* tokens whose create has returned and on which no delete was ever called
Visible == {tok \in created : tok.id \notin delCalled /\ tok.token \notin delCalled}
\* tokens whose delete(id) has returned
Revoked == {tok \in created : tok.id \in delReturned}

\* a call returns r
Return(t, r) ==
    /\ result' = [result EXCEPT ![t] = r]
    /\ pc' = [pc EXCEPT ![t] = Idle]
    /\ call' = [call EXCEPT ![t] = NoCall]
    /\ frame' = [frame EXCEPT ![t] = EmptyFrame]

(***************************************************************************)
(* TokenCache::get_by_token / TokenCache::list                             *)
(***************************************************************************)
\* the call up to its first cache check
ReadStart(t, op, arg, mode) ==
    /\ pc[t] = Idle
    /\ op = "get_by_token" => arg \in GetArgs(mode)
    /\ Issue(mode)
    /\ IF cache.some
       THEN Return(t, Answer(op, arg, cache.v, Visible, Revoked))
       ELSE /\ result' = [result EXCEPT ![t] = RPending]
            /\ pc' = [pc EXCEPT ![t] = "lc_list"]
            /\ call' = [call EXCEPT ![t] = [op |-> op, arg |-> arg]]
            /\ frame' = [frame EXCEPT ![t] = [EmptyFrame EXCEPT !.seen0 = Visible, !.gone0 = Revoked]]
    /\ UNCHANGED <<store, cache, minted, created, delCalled, delReturned, regVars, fsVars, pipeVars, apiVars>>

\* "Try again" after load_cache
ReadAgain(t) ==
    /\ pc[t] = "read2"
    /\ LET must == {tok \in frame[t].seen0 : tok.id \notin delCalled /\ tok.token \notin delCalled}
           mustnot == frame[t].gone0
       IN Return(t, Answer(call[t].op, call[t].arg, IF cache.some THEN cache.v ELSE {},
                           must, mustnot))
    /\ UNCHANGED <<store, cache, minted, created, delCalled, delReturned, calls, regVars, fsVars, pipeVars, apiVars>>

(***************************************************************************)
(* TokenCache::load_cache                                                  *)
(***************************************************************************)
\* registry.list_tokens().await
LoadList(t) ==
    /\ pc[t] = "lc_list"
    /\ LET r == RegistryLoad(store) IN
       IF r.ok
       THEN /\ frame' = [frame EXCEPT ![t].entries = r.data.tokens, ![t].map = {}]
            /\ pc' = [pc EXCEPT ![t] = IF r.data.tokens = <<>> THEN "lc_install" ELSE "lc_get"]
            /\ UNCHANGED <<result, call>>
       ELSE Return(t, RErr)
    /\ UNCHANGED <<store, cache, minted, created, delCalled, delReturned, calls, regVars, fsVars, pipeVars, apiVars>>

\* variant that gives up the load at the first entry it cannot read
LoadGetOrFail(t) ==
    /\ pc[t] = "lc_get"
    /\ LET entry == Head(frame[t].entries)
           got == StoreGet(store, TokenKey(entry.token_value))
           parsed == IF got.some THEN ParseToken(got.v) ELSE [ok |-> FALSE]
           rest == Tail(frame[t].entries)
       IN IF parsed.ok
          THEN /\ frame' = [frame EXCEPT ![t].entries = rest, ![t].map = MapInsert(@, parsed.tok)]
               /\ pc' = [pc EXCEPT ![t] = IF rest = <<>> THEN "lc_install" ELSE "lc_get"]
               /\ UNCHANGED <<result, call>>
          ELSE Return(t, RErr)
    /\ UNCHANGED <<store, cache, minted, created, delCalled, delReturned, calls, regVars, fsVars, pipeVars, apiVars>>

\* one iteration of the loop: store.get(token:{entry.id}).await
LoadGet(t) ==
    /\ pc[t] = "lc_get"
    /\ LET entry == Head(frame[t].entries)
           got == StoreGet(store, TokenKey(entry.token_value))
           parsed == IF got.some THEN ParseToken(got.v) ELSE [ok |-> FALSE]
           rest == Tail(frame[t].entries)
       IN /\ frame' = [frame EXCEPT ![t].entries = rest,
                                    ![t].map = IF parsed.ok THEN MapInsert(@, parsed.tok) ELSE @]
          /\ pc' = [pc EXCEPT ![t] = IF rest = <<>> THEN "lc_install" ELSE "lc_get"]
    /\ UNCHANGED <<store, cache, call, result, minted, created, delCalled, delReturned, calls, regVars, fsVars, pipeVars, apiVars>>

\* *self.cache.write().await = Some(token_map)
LoadInstall(t) ==
    /\ pc[t] = "lc_install"
    /\ cache' = Some(frame[t].map)
    /\ pc' = [pc EXCEPT ![t] = IF call[t].op = "delete" THEN "del_check2" ELSE "read2"]
    /\ UNCHANGED <<store, call, frame, result, minted, created, delCalled, delReturned, calls, regVars, fsVars, pipeVars, apiVars>>

(***************************************************************************)
(* TokenCache::create                                                      *)
(***************************************************************************)
\* AgentToken::new, then store.set(token:{id}, json).await
CreateStart(t, name, mode) ==
    /\ pc[t] = Idle
    /\ Issue(mode)
    /\ minted < MaxTokens
    /\ LET tok == NewToken(minted + 1, name) IN
       /\ store' = StoreSet(store, TokenKey(tok.id), TokenJson(tok))
       /\ frame' = [frame EXCEPT ![t] = [EmptyFrame EXCEPT !.tok = tok]]
    /\ minted' = minted + 1
    /\ call' = [call EXCEPT ![t] = [op |-> "create", arg |-> name]]
    /\ result' = [result EXCEPT ![t] = RPending]
    /\ pc' = [pc EXCEPT ![t] = "cr_rload"]
    /\ UNCHANGED <<cache, created, delCalled, delReturned, regVars, fsVars, pipeVars, apiVars>>

\* registry.add_token: self.load().await, then push
CreateRegLoad(t) ==
    /\ pc[t] = "cr_rload"
    /\ LET r == RegistryLoad(store) IN
       IF r.ok
       THEN /\ frame' = [frame EXCEPT ![t].data = PushToken(r.data, TokenEntryOf(frame[t].tok))]
            /\ pc' = [pc EXCEPT ![t] = "cr_rsave"]
            /\ UNCHANGED <<result, call>>
       ELSE Return(t, RErr)
    /\ UNCHANGED <<store, cache, minted, created, delCalled, delReturned, calls, regVars, fsVars, pipeVars, apiVars>>

\* registry.add_token: self.save(&data).await
CreateRegSave(t) ==
    /\ pc[t] = "cr_rsave"
    /\ store' = RegistrySave(store, frame[t].data)
    /\ pc' = [pc EXCEPT ![t] = "cr_inval"]
    /\ UNCHANGED <<cache, call, frame, result, minted, created, delCalled, delReturned, calls, regVars, fsVars, pipeVars, apiVars>>

\* variant of the last step of create that returns without invalidating
CreateWithoutInvalidate(t) ==
    /\ pc[t] = "cr_inval"
    /\ cache' = cache
    /\ created' = created \cup {frame[t].tok}
    /\ Return(t, RTok(frame[t].tok))
    /\ UNCHANGED <<store, minted, delCalled, delReturned, calls, regVars, fsVars, pipeVars, apiVars>>

\* self.invalidate().await; Ok(token)
CreateInvalidate(t) ==
    /\ pc[t] = "cr_inval"
    /\ cache' = None
    /\ created' = created \cup {frame[t].tok}
    /\ Return(t, RTok(frame[t].tok))
    /\ UNCHANGED <<store, minted, delCalled, delReturned, calls, regVars, fsVars, pipeVars, apiVars>>

(***************************************************************************)
(* TokenCache::delete                                                      *)
(***************************************************************************)
Existed(map, id) == \E tok \in map : tok.id = id

\* history: store s holds a token with bearer value v that the registry
\* lists (the token a fresh load_cache would put in the map under v)
Held(s, v) ==
    LET r == RegistryLoad(s) IN
    /\ r.ok
    /\ \E i \in 1..Len(r.data.tokens) :
          LET got == StoreGet(s, TokenKey(r.data.tokens[i].token_value)) IN
          got.some /\ ParseToken(got.v).ok /\ ParseToken(got.v).tok.token = v

\* the call up to its first cache check
DeleteStart(t, id, mode) ==
    /\ pc[t] = Idle
    /\ id \in DelArgs(mode)
    /\ Issue(mode)
    /\ call' = [call EXCEPT ![t] = [op |-> "delete", arg |-> id]]
    /\ delCalled' = delCalled \cup {id}
    /\ result' = [result EXCEPT ![t] = RPending]
    /\ IF cache.some
       THEN /\ frame' = [frame EXCEPT ![t] = [EmptyFrame EXCEPT !.existed = Existed(cache.v, id),
                                                                !.held = Held(store, id)]]
            /\ pc' = [pc EXCEPT ![t] = "del_store"]
       ELSE /\ frame' = [frame EXCEPT ![t] = [EmptyFrame EXCEPT !.held = Held(store, id)]]
            /\ pc' = [pc EXCEPT ![t] = "lc_list"]
    /\ UNCHANGED <<store, cache, minted, created, delReturned, regVars, fsVars, pipeVars, apiVars>>

\* the cache check after load_cache
DeleteCheckAgain(t) ==
    /\ pc[t] = "del_check2"
    /\ frame' = [frame EXCEPT ![t].existed = IF cache.some THEN Existed(cache.v, call[t].arg) ELSE FALSE]
    /\ pc' = [pc EXCEPT ![t] = "del_store"]
    /\ UNCHANGED <<store, cache, call, result, minted, created, delCalled, delReturned, calls, regVars, fsVars, pipeVars, apiVars>>

\* self.store.delete(token:{id}).await
DeleteStore(t) ==
    /\ pc[t] = "del_store"
    /\ store' = StoreDelete(store, TokenKey(call[t].arg))
    /\ pc' = [pc EXCEPT ![t] = "del_rload"]
    /\ UNCHANGED <<cache, call, frame, result, minted, created, delCalled, delReturned, calls, regVars, fsVars, pipeVars, apiVars>>

\* registry.remove_token: self.load().await, then retain
DeleteRegLoad(t) ==
    /\ pc[t] = "del_rload"
    /\ LET r == RegistryLoad(store) IN
       IF r.ok
       THEN /\ frame' = [frame EXCEPT ![t].data = RetainTokens(r.data, call[t].arg)]
            /\ pc' = [pc EXCEPT ![t] = "del_rsave"]
            /\ UNCHANGED <<result, call>>
       ELSE Return(t, RErr)
    /\ UNCHANGED <<store, cache, minted, created, delCalled, delReturned, calls, regVars, fsVars, pipeVars, apiVars>>

\* registry.remove_token: self.save(&data).await
DeleteRegSave(t) ==
    /\ pc[t] = "del_rsave"
    /\ store' = RegistrySave(store, frame[t].data)
    /\ pc' = [pc EXCEPT ![t] = "del_inval"]
    /\ UNCHANGED <<cache, call, frame, result, minted, created, delCalled, delReturned, calls, regVars, fsVars, pipeVars, apiVars>>

\* self.invalidate().await; Ok(existed)
DeleteInvalidate(t) ==
    /\ pc[t] = "del_inval"
    /\ cache' = None
    /\ delReturned' = delReturned \cup {call[t].arg}
    /\ Return(t, RBool(call[t].arg, frame[t].existed, frame[t].held))
    /\ UNCHANGED <<store, minted, created, delCalled, calls, regVars, fsVars, pipeVars, apiVars>>

(***************************************************************************)
(* TokenCache::invalidate                                                  *)
(***************************************************************************)
Invalidate(t, mode) ==
    /\ pc[t] = Idle
    /\ Issue(mode)
    /\ cache' = None
    /\ Return(t, RUnit)
    /\ UNCHANGED <<store, minted, created, delCalled, delReturned, regVars, fsVars, pipeVars, apiVars>>

(***************************************************************************)
(* Writes behind the cache: a caller that holds the store and the registry *)
(* stores a token itself (store.set here, Registry::add_token after it)    *)
(***************************************************************************)
\* AgentToken::new, then store.set(token:{id}, json).await on the store
DirectSet(t, name, mode) ==
    /\ pc[t] = Idle
    /\ Issue(mode)
    /\ minted < MaxTokens
    /\ store' = StoreSet(store, TokenKey(NewToken(minted + 1, name).id),
                         TokenJson(NewToken(minted + 1, name)))
    /\ minted' = minted + 1
    /\ UNCHANGED <<cache, pc, call, frame, result, created, delCalled, delReturned, regVars,
                   fsVars, pipeVars, apiVars>>

\* the ids AgentToken::new has handed out
MintedIds == {IdPool[n] : n \in 1..minted}


(***************************************************************************)
(* Errors of the store and of the registry inside create and delete        *)
(***************************************************************************)
\* the error a call returns, with the await it came from
RFailed(at) == [kind |-> "err", at |-> at]

\* the store or registry call that create or delete awaits returns Err,
\* which `?` returns to the caller: store.delete, or the load or the save of
\* registry.add_token / registry.remove_token; the failed call wrote nothing
CacheFail(t) ==
    /\ pc[t] \in {"cr_rload", "cr_rsave", "del_store", "del_rload", "del_rsave"}
    /\ Return(t, RFailed(pc[t]))
    /\ UNCHANGED <<store, cache, minted, created, delCalled, delReturned, calls, regVars, fsVars,
                   pipeVars, apiVars>>
(***************************************************************************)
(* Properties of the TokenCache                                            *)
(***************************************************************************)
\* the registry document as stored
RegistryDoc == RegistryLoad(store).data

\* a read returned what it was obliged to show
ShowsCreated(r) ==
    /\ r.kind = "opt" => \A tok \in r.must : tok.token = r.arg => r.opt = Some(tok)
    /\ r.kind = "list" => r.must \subseteq r.list
HidesDeleted(r) ==
    /\ r.kind = "opt" => \A tok \in r.mustnot : tok.token = r.arg => r.opt = None
    /\ r.kind = "list" => r.mustnot \cap r.list = {}

\* C1: once a create or delete has returned, every read that starts afterwards
\* reflects it, whatever the interleaving of concurrent readers and writers
C1_PostWriteVisibility ==
    \A t \in ConcTasks : ShowsCreated(result[t]) /\ HidesDeleted(result[t])

\* C2: in a single-caller history a read after create(name) -> t finds t, and
\* list() holds t and every earlier token that was not deleted
C2_CreateThenRead ==
    \A t \in SeqTasks : ShowsCreated(result[t])

C2_Witness ==
    \E t \in SeqTasks :
        /\ result[t].kind = "list"
        /\ Cardinality(result[t].must) = 2
        /\ result[t].list = result[t].must

\* C3: in a single-caller history, after delete(v) has returned for a created
\* token with value v, get_by_token(v) is None and list() omits the token;
\* a value that was never created is not found
C3_Revocation ==
    \A t \in SeqTasks :
        LET r == result[t] IN
        /\ r.kind = "opt" =>
              /\ (r.arg \in delReturned /\ \E tok \in created : tok.token = r.arg) => r.opt = None
              /\ r.arg \notin KnownVals => r.opt = None
        /\ r.kind = "list" => \A tok \in created : tok.token \in delReturned => tok \notin r.list

\* C5: whenever no create/delete is mid-execution, every token entry of the
\* registry has its store entry at token:{v}
NoWriteInFlight == \A t \in Tasks : call[t].op \notin {"create", "delete"}
C5_RegistryRowsHaveStoreValue ==
    NoWriteInFlight =>
        \A e \in Range(RegistryDoc.tokens) : StoreGet(store, TokenKey(e.token_value)).some


\* C26: with a single caller, delete(v) returns true exactly when a token
\* with bearer value v was registered (listed by the registry, stored in the
\* store) when delete was called: true for a created token that was not
\* deleted, false for a value never created and for a repeated delete.
C26_DeleteReportsExistence ==
    \A t \in SeqTasks :
        result[t].kind = "bool" => (result[t].b <=> result[t].held)

\* the tokens a load_cache would find: those the registry lists whose store
\* entry holds a token
TokensIn(s) ==
    {ParseToken(s[TokenKey(e.token_value)]).tok :
        e \in {x \in Range(RegistryLoad(s).data.tokens) :
                  /\ TokenKey(x.token_value) \in DOMAIN s
                  /\ ParseToken(s[TokenKey(x.token_value)]).ok}}

\* result r is the read answered from map
AnsweredFrom(r, map) ==
    /\ r.kind \in {"list", "opt"}
    /\ r.kind = "list" => r.list = map
    /\ r.kind = "opt" =>
          r.opt = IF \E x \in map : x.token = r.arg
                  THEN Some(CHOOSE x \in map : x.token = r.arg) ELSE None

\* a map present while no call is in flight holds every token created
\* through the cache and none deleted through it
LoadedMapIsCurrent ==
    ((\A t \in Tasks : pc[t] = Idle) /\ cache.some) =>
        /\ Visible \subseteq cache.v
        /\ \A tok \in created : tok.id \in delReturned => tok \notin cache.v

\* C27: the cache starts absent; load_cache installs the map of the tokens
\* the registry lists; a read that finds a map is answered from it and
\* leaves it in place, whatever has been written to store and registry
\* since; create, delete and invalidate leave the cache absent; so a map
\* that is present at rest was loaded after the last write through the
\* cache, and the read after a write reflects the registry.
C27_CacheProtocol ==
    /\ cache = None
    /\ []LoadedMapIsCurrent
    /\ [][\A t \in Tasks :
            /\ (pc[t] = "lc_install" /\ pc'[t] # "lc_install") =>
                  (cache'.some /\ cache'.v = TokensIn(store))
            /\ (/\ pc[t] = Idle /\ pc'[t] = Idle /\ result'[t] # result[t]
                /\ cache.some /\ cache' = cache /\ store' = store) =>
                  AnsweredFrom(result'[t], cache.v)
            /\ (pc[t] = "read2" /\ pc'[t] = Idle) =>
                  AnsweredFrom(result'[t], IF cache.some THEN cache.v ELSE {})
            /\ (pc[t] \in {"cr_inval", "del_inval"} /\ pc'[t] = Idle) => cache' = None
            /\ (pc[t] = Idle /\ pc'[t] = Idle /\ result'[t] = RUnit /\ result[t] # RUnit) =>
                  cache' = None]_vars


\* C28: with a single caller, every token a create has returned and no
\* delete was called on is stored, serialized, at token:{token value} and has
\* a registry entry carrying that value; once delete(v) has returned the
\* store has no key token:{v} and the registry no entry with value v.
C28_TokenIdentity ==
    /\ \A tok \in created :
          (tok.id \notin delCalled /\ tok.token \notin delCalled) =>
              /\ StoreGet(store, <<"token", tok.token>>) = Some(TokenJson(tok))
              /\ \E e \in Range(RegistryDoc.tokens) : e.token_value = tok.token
    /\ \A v \in delReturned :
          /\ <<"token", v>> \notin DOMAIN store
          /\ \A e \in Range(RegistryDoc.tokens) : e.token_value # v
(***************************************************************************)
(* Registry mutations issued directly by concurrent tasks                  *)
(***************************************************************************)
\* number of registry mutations issued in one run
MaxMuts == 3

\* the in-memory edits of add_plugin / remove_plugin / add_credential /
\* remove_credential (push / retain)
PushPlugin(data, entry) == [data EXCEPT !.plugins = Append(@, entry)]
RetainPlugins(data, name) ==
    [data EXCEPT !.plugins = SelectSeq(@, LAMBDA e : e.name # name)]
PushCredential(data, entry) == [data EXCEPT !.credentials = Append(@, entry)]

\* variant of the retain that drops every credential of the plugin
RetainCredentialsOfOtherPlugins(data, plugin, field) ==
    [data EXCEPT !.credentials = SelectSeq(@, LAMBDA c : c.plugin # plugin)]

RetainCredentials(data, plugin, field) ==
    [data EXCEPT !.credentials = SelectSeq(@, LAMBDA c : ~(c.plugin = plugin /\ c.field = field))]

\* inputs of the mutations
RegTokenValues == {"acp_a", "acp_b"}
RegPluginNames == {"exa"}
RegFields == {"api_key"}
RegTokenEntry(v) == [token_value |-> v, name |-> "agent", created_at |-> 0]
RegPluginEntry(n) == [name |-> n, hosts |-> {<<"api", "exa", "ai">>}, credential_schema |-> <<"api_key">>]
RegCredentialEntry(p, f) == [plugin |-> p, field |-> f]

Mutation(op, a, b) == [op |-> op, a |-> a, b |-> b]

\* what one mutation does to the document it loaded
ApplyMutation(data, m) ==
    CASE m.op = "add_token" -> PushToken(data, RegTokenEntry(m.a))
      [] m.op = "remove_token" -> RetainTokens(data, m.a)
      [] m.op = "add_plugin" -> PushPlugin(data, RegPluginEntry(m.a))
      [] m.op = "remove_plugin" -> RetainPlugins(data, m.a)
      [] m.op = "add_credential" -> PushCredential(data, RegCredentialEntry(m.a, m.b))
      [] m.op = "remove_credential" -> RetainCredentials(data, m.a, m.b)

InitReg == issued = <<>>

\* self.load().await and the in-memory edit, up to the await of save
Mutate(t, m) ==
    /\ pc[t] = Idle
    /\ Len(issued) < MaxMuts
    /\ issued' = Append(issued, m)
    /\ LET r == RegistryLoad(store) IN
       IF r.ok
       THEN /\ frame' = [frame EXCEPT ![t] = [EmptyFrame EXCEPT !.data = ApplyMutation(r.data, m),
                                                                !.mut = m, !.loaded = r.data]]
            /\ pc' = [pc EXCEPT ![t] = "reg_save"]
            /\ call' = [call EXCEPT ![t] = [op |-> m.op, arg |-> m.a]]
            /\ result' = [result EXCEPT ![t] = RPending]
       ELSE Return(t, RErr)
    /\ UNCHANGED <<store, cache, minted, created, delCalled, delReturned, calls, fsVars, pipeVars, apiVars>>

\* Registry::add_token
RegAddToken(t, v) == Mutate(t, Mutation("add_token", v, ""))
\* Registry::remove_token
RegRemoveToken(t, v) == Mutate(t, Mutation("remove_token", v, ""))
\* Registry::add_plugin
RegAddPlugin(t, n) == Mutate(t, Mutation("add_plugin", n, ""))
\* Registry::remove_plugin
RegRemovePlugin(t, n) == Mutate(t, Mutation("remove_plugin", n, ""))
\* Registry::add_credential
RegAddCredential(t, p, f) == Mutate(t, Mutation("add_credential", p, f))
\* Registry::remove_credential
RegRemoveCredential(t, p, f) == Mutate(t, Mutation("remove_credential", p, f))

\* what a completed mutation returned (Ok(())), with the history of the call:
\* the mutation, the store it loaded from and the store its save left
RMutated(m, loaded, before, after) ==
    [kind |-> "mutated", m |-> m, loaded |-> loaded, before |-> before, after |-> after]

\* self.save(&data).await of a mutation
RegSaveStep(t) ==
    /\ pc[t] = "reg_save"
    /\ store' = RegistrySave(store, frame[t].data)
    /\ Return(t, RMutated(frame[t].mut, frame[t].loaded, store,
                          RegistrySave(store, frame[t].data)))
    /\ UNCHANGED <<cache, minted, created, delCalled, delReturned, calls, issued, fsVars, pipeVars, apiVars>>

\* the orders in which n mutations can be applied one after the other
Orders(n) == {f \in [1..n -> 1..n] : \A i, j \in 1..n : i # j => f[i] # f[j]}

RECURSIVE ApplyInOrder(_, _, _, _)
ApplyInOrder(data, ms, order, i) ==
    IF i > Len(order) THEN data
    ELSE ApplyInOrder(ApplyMutation(data, ms[order[i]]), ms, order, i + 1)

\* C4: once all concurrently issued mutations have completed, the registry
\* document is what applying all of them in some sequential order gives
C4_MutationsSerialized ==
    (\A t \in ConcTasks : pc[t] = Idle) =>
        \E order \in Orders(Len(issued)) :
            RegistryDoc = ApplyInOrder(DefaultRegistryData, issued, order, 1)


(***************************************************************************)
(* Registry::load, save and the list operations, called by one task        *)
(***************************************************************************)
\* what a completed call returned, with the store before and after it
RLoaded(r, before, after) ==
    [kind |-> "loaded", ok |-> r.ok, data |-> IF r.ok THEN r.data ELSE DefaultRegistryData,
     before |-> before, after |-> after]
RSaved(data, before, after) == [kind |-> "saved", data |-> data, before |-> before, after |-> after]
RListed(coll, r, before, after) ==
    [kind |-> "listed", coll |-> coll, ok |-> r.ok,
     list |-> IF ~r.ok THEN <<>>
              ELSE IF coll = "tokens" THEN r.data.tokens
              ELSE IF coll = "plugins" THEN r.data.plugins
              ELSE r.data.credentials,
     before |-> before, after |-> after]

\* variant of load that creates the document when it finds none
RegLoadCreating(t) ==
    /\ pc[t] = Idle
    /\ store' = IF StoreGet(store, KEY).some THEN store
                ELSE RegistrySave(store, DefaultRegistryData)
    /\ Return(t, RLoaded(RegistryLoad(store), store, store'))
    /\ UNCHANGED <<cache, minted, created, delCalled, delReturned, calls, issued, fsVars, pipeVars, apiVars>>

\* Registry::load
RegLoad(t) ==
    /\ pc[t] = Idle
    /\ Return(t, RLoaded(RegistryLoad(store), store, store))
    /\ UNCHANGED <<store, cache, minted, created, delCalled, delReturned, calls, issued, fsVars, pipeVars, apiVars>>

\* variant of save that keeps the entries of the stored document in front
RegSaveMerging(t, data) ==
    /\ pc[t] = Idle
    /\ LET old == RegistryLoad(store).data
           merged == [data EXCEPT !.tokens = old.tokens \o @] IN
        /\ store' = RegistrySave(store, merged)
        /\ Return(t, RSaved(data, store, RegistrySave(store, merged)))
    /\ UNCHANGED <<cache, minted, created, delCalled, delReturned, calls, issued, fsVars, pipeVars, apiVars>>

\* Registry::save
RegSave(t, data) ==
    /\ pc[t] = Idle
    /\ store' = RegistrySave(store, data)
    /\ Return(t, RSaved(data, store, RegistrySave(store, data)))
    /\ UNCHANGED <<cache, minted, created, delCalled, delReturned, calls, issued, fsVars, pipeVars, apiVars>>

\* Registry::list_tokens / list_plugins / list_credentials
RegList(t, coll) ==
    /\ pc[t] = Idle
    /\ Return(t, RListed(coll, RegistryLoad(store), store, store))
    /\ UNCHANGED <<store, cache, minted, created, delCalled, delReturned, calls, issued, fsVars, pipeVars, apiVars>>

\* ---- inputs of a single caller
\* keys that the seeded document holds twice, and a credential key that
\* no document holds
SeqTokenValues == {"acp_a"}
SeqPluginNames == {"exa"}
SeqCredentials == {<<"exa", "api_key">>}
SeqRemovedCredentials == SeqCredentials \cup {<<"s3", "secret">>}
Collections == {"tokens", "plugins", "credentials"}

\* a document with entries that share a primary key, one that lists the same
\* entries in another order under another version, and the bytes of a
\* store value that is not a registry document
DupDoc ==
    [version |-> 1,
     tokens |-> <<RegTokenEntry("acp_a"), RegTokenEntry("acp_b"),
                  [RegTokenEntry("acp_a") EXCEPT !.name = "again"]>>,
     plugins |-> <<RegPluginEntry("exa"), RegPluginEntry("s3"),
                   [RegPluginEntry("exa") EXCEPT !.credential_schema = <<>>]>>,
     credentials |-> <<RegCredentialEntry("exa", "api_key"), RegCredentialEntry("exa", "secret"),
                       RegCredentialEntry("s3", "api_key"), RegCredentialEntry("exa", "api_key")>>]
ReorderedDoc ==
    [version |-> 2,
     tokens |-> <<RegTokenEntry("acp_b"), RegTokenEntry("acp_a")>>,
     plugins |-> <<RegPluginEntry("s3"), RegPluginEntry("exa")>>,
     credentials |-> <<RegCredentialEntry("s3", "api_key"), RegCredentialEntry("exa", "api_key")>>]
SaveDocs == {DefaultRegistryData, DupDoc, ReorderedDoc}

\* the store a Registry is constructed over: fresh, or holding a document
\* and the value of a token
InitRegStore ==
    \E seeded \in BOOLEAN :
        store = IF seeded
                THEN StoreSet(RegistrySave(EmptyStore, DupDoc), TokenKey("acp_a"),
                              RawBytes("a token"))
                ELSE EmptyStore
(***************************************************************************)
(* FileStore and KeychainStore (storage.rs), one action per system call.   *)
(* Keys and values are byte strings, written as sequences of numbers.      *)
(***************************************************************************)
\* number of store calls issued in one concurrent run
MaxStoreCalls == 3

\* "t" and "t:" -- one key is a prefix of the other
StoreKeys == {<<116>>, <<116, 58>>}
\* two values of different lengths
StoreValues == {<<1>>, <<2, 3>>}
Backends == {"fs", "kc"}

\* base64 URL_SAFE_NO_PAD.encode: three bytes give four 6-bit digits, a
\* remainder of one or two bytes gives two or three digits, no padding
RECURSIVE Base64UrlNoPad(_)
Base64UrlNoPad(b) ==
    IF Len(b) = 0 THEN <<>>
    ELSE IF Len(b) = 1 THEN <<b[1] \div 4, (b[1] % 4) * 16>>
    ELSE IF Len(b) = 2 THEN <<b[1] \div 4, (b[1] % 4) * 16 + (b[2] \div 16), (b[2] % 16) * 4>>
    ELSE <<b[1] \div 4, (b[1] % 4) * 16 + (b[2] \div 16), (b[2] % 16) * 4 + (b[3] \div 64), b[3] % 64>>
         \o Base64UrlNoPad(SubSeq(b, 4, Len(b)))

\* variant that names the file after the first byte of the key only
key_to_filename_first_byte(key) ==
    [stem |-> Base64UrlNoPad(SubSeq(key, 1, 1)), ext |-> ""]

\* FileStore::key_to_filename: base_path.join(encoded); the encoded name
\* holds no '.', so it has no extension
key_to_filename(key) ==
    [stem |-> Base64UrlNoPad(key), ext |-> ""]

\* Path::with_extension("tmp") on a name without extension
temp_path(path) == [path EXCEPT !.ext = "tmp"]

\* directory operations
Unlink(d, name) == [n \in (DOMAIN d) \ {name} |-> d[n]]
Link(d, name, ino) == [n \in (DOMAIN d) \cup {name} |-> IF n = name THEN ino ELSE d[n]]
EmptyDir == [n \in {} |-> 0]

\* write(2) of buf at offset 0 of a file holding old
Overlay(buf, old) ==
    IF Len(old) > Len(buf) THEN buf \o SubSeq(old, Len(buf) + 1, Len(old)) ELSE buf

\* smallest inode number not in use
FreshIno(ins) ==
    CHOOSE n \in 1..(Cardinality(DOMAIN ins) + 1) :
        /\ n \notin DOMAIN ins
        /\ \A m \in 1..(n - 1) : m \in DOMAIN ins

\* a file is freed once it has no name and no open descriptor
Reap(d, ins, open) ==
    [i \in {j \in DOMAIN ins : j \in open \/ \E n \in DOMAIN d : d[n] = j} |-> ins[i]]

FdPcs == {"fs_write", "fs_read"}
\* descriptors held open by the tasks other than t
OpenFds(t) == {sop[u].fd : u \in {x \in Tasks \ {t} : spc[x] \in FdPcs}}

NoOp == [op |-> "none", backend |-> "", key |-> <<>>, value |-> <<>>, fd |-> 0, had |-> FALSE]

SPending == [kind |-> "pending"]
SGot(b, key, opt, want, must, vals) ==
    [kind |-> "get", backend |-> b, key |-> key, opt |-> opt, want |-> want, must |-> must, vals |-> vals]
SSet(b, key, ok, err) == [kind |-> "set", backend |-> b, key |-> key, ok |-> ok, err |-> err]
SDeleted(b, key) == [kind |-> "delete", backend |-> b, key |-> key]

InitStore ==
    /\ backend \in Backends
    /\ dir = EmptyDir
    /\ inodes = [i \in {} |-> 0]
    /\ keychain = EmptyStore
    /\ spc = [t \in Tasks |-> "idle"]
    /\ sop = [t \in Tasks |-> NoOp]
    /\ sres = [t \in Tasks |-> SPending]
    /\ shadow = [b \in Backends |-> EmptyStore]
    /\ everSet = [b \in Backends |-> {}]
    /\ delStarted = [b \in Backends |-> {}]
    /\ scalls = 0

SIssue(mode) ==
    IF mode = "seq" THEN scalls' = scalls ELSE scalls < MaxStoreCalls /\ scalls' = scalls + 1

SReturn(t, r) ==
    /\ sres' = [sres EXCEPT ![t] = r]
    /\ spc' = [spc EXCEPT ![t] = "idle"]
    /\ sop' = [sop EXCEPT ![t] = NoOp]

ValsOf(b, key) == {p[2] : p \in {q \in everSet[b] : q[1] = key}}

\* what a get on backend b has to return at the moment it returns, per the
\* map the completed calls describe
GotNow(t, opt) ==
    LET b == sop[t].backend
        key == sop[t].key IN
    SGot(b, key, opt, StoreGet(shadow[b], key),
         sop[t].had /\ key \notin delStarted[b], ValsOf(b, key))

(***************************************************************************)
(* FileStore::set                                                          *)
(***************************************************************************)
\* tokio::fs::write, first half: open(temp_path, O_CREAT | O_TRUNC)
FsSetOpen(t, key, value, mode) ==
    /\ spc[t] = "idle"
    /\ backend = "fs"
    /\ SIssue(mode)
    /\ LET temp == temp_path(key_to_filename(key))
           ino == IF temp \in DOMAIN dir THEN dir[temp] ELSE FreshIno(inodes) IN
        /\ dir' = Link(dir, temp, ino)
        /\ inodes' = IF temp \in DOMAIN dir
                     THEN [inodes EXCEPT ![ino].data = <<>>]
                     ELSE [i \in (DOMAIN inodes) \cup {ino} |->
                              IF i = ino THEN [data |-> <<>>, mode |-> "0644"] ELSE inodes[i]]
        /\ sop' = [sop EXCEPT ![t] = [op |-> "set", backend |-> "fs", key |-> key,
                                      value |-> value, fd |-> ino, had |-> FALSE]]
    /\ spc' = [spc EXCEPT ![t] = "fs_write"]
    /\ everSet' = [everSet EXCEPT !["fs"] = @ \cup {<<key, value>>}]
    /\ UNCHANGED <<backend, keychain, sres, shadow, delStarted, cacheVars, regVars, pipeVars, apiVars>>

\* tokio::fs::write, second half: write the value and close
FsSetWrite(t) ==
    /\ spc[t] = "fs_write"
    /\ inodes' = Reap(dir, [inodes EXCEPT ![sop[t].fd].data = Overlay(sop[t].value, @)], OpenFds(t))
    /\ spc' = [spc EXCEPT ![t] = "fs_chmod"]
    /\ UNCHANGED <<backend, dir, keychain, sop, sres, shadow, everSet, delStarted, scalls, cacheVars, regVars, pipeVars, apiVars>>

\* std::fs::set_permissions(temp_path, 0o600)
FsSetChmod(t) ==
    /\ spc[t] = "fs_chmod"
    /\ LET temp == temp_path(key_to_filename(sop[t].key)) IN
        IF temp \in DOMAIN dir
        THEN /\ inodes' = [inodes EXCEPT ![dir[temp]].mode = "0600"]
             /\ spc' = [spc EXCEPT ![t] = "fs_rename"]
             /\ UNCHANGED <<sop, sres>>
        ELSE /\ SReturn(t, SSet("fs", sop[t].key, FALSE, "NotFound"))
             /\ UNCHANGED inodes
    /\ UNCHANGED <<backend, dir, keychain, shadow, everSet, delStarted, scalls, cacheVars, regVars, pipeVars, apiVars>>

\* tokio::fs::rename(temp_path, path)
FsSetRename(t) ==
    /\ spc[t] = "fs_rename"
    /\ LET path == key_to_filename(sop[t].key)
           temp == temp_path(path) IN
        IF temp \in DOMAIN dir
        THEN /\ dir' = Link(Unlink(dir, temp), path, dir[temp])
             /\ inodes' = Reap(dir', inodes, OpenFds(t))
             /\ shadow' = [shadow EXCEPT !["fs"] = StoreSet(@, sop[t].key, sop[t].value)]
             /\ SReturn(t, SSet("fs", sop[t].key, TRUE, ""))
        ELSE /\ SReturn(t, SSet("fs", sop[t].key, FALSE, "NotFound"))
             /\ UNCHANGED <<dir, inodes, shadow>>
    /\ UNCHANGED <<backend, keychain, everSet, delStarted, scalls, cacheVars, regVars, pipeVars, apiVars>>

\* a system call of set fails for a reason of the environment, or the
\* caller drops the future at an await: set ends where it stands
FsSetFail(t) ==
    /\ spc[t] \in {"fs_write", "fs_chmod", "fs_rename"}
    /\ inodes' = Reap(dir, inodes, OpenFds(t))
    /\ SReturn(t, SSet("fs", sop[t].key, FALSE, "io"))
    /\ UNCHANGED <<backend, dir, keychain, shadow, everSet, delStarted, scalls, cacheVars, regVars, pipeVars, apiVars>>

(***************************************************************************)
(* FileStore::get, FileStore::delete                                       *)
(***************************************************************************)
\* tokio::fs::read, first half: open(path); NotFound is Ok(None)
FsGetOpen(t, key, mode) ==
    /\ spc[t] = "idle"
    /\ backend = "fs"
    /\ SIssue(mode)
    /\ LET path == key_to_filename(key)
           op == [op |-> "get", backend |-> "fs", key |-> key, value |-> <<>>,
                  fd |-> IF path \in DOMAIN dir THEN dir[path] ELSE 0,
                  had |-> key \in DOMAIN shadow["fs"]] IN
        IF path \in DOMAIN dir
        THEN /\ sop' = [sop EXCEPT ![t] = op]
             /\ spc' = [spc EXCEPT ![t] = "fs_read"]
             /\ UNCHANGED sres
        ELSE /\ sres' = [sres EXCEPT ![t] =
                    SGot("fs", key, None, StoreGet(shadow["fs"], key),
                         op.had /\ key \notin delStarted["fs"], ValsOf("fs", key))]
             /\ UNCHANGED <<spc, sop>>
    /\ UNCHANGED <<backend, dir, inodes, keychain, shadow, everSet, delStarted, cacheVars, regVars, pipeVars, apiVars>>

\* tokio::fs::read, second half: read to the end and close
FsGetRead(t) ==
    /\ spc[t] = "fs_read"
    /\ SReturn(t, GotNow(t, Some(inodes[sop[t].fd].data)))
    /\ inodes' = Reap(dir, inodes, OpenFds(t))
    /\ UNCHANGED <<backend, dir, keychain, shadow, everSet, delStarted, scalls, cacheVars, regVars, pipeVars, apiVars>>

\* tokio::fs::remove_file(path); NotFound is Ok(())
FsDelete(t, key, mode) ==
    /\ spc[t] = "idle"
    /\ backend = "fs"
    /\ SIssue(mode)
    /\ dir' = Unlink(dir, key_to_filename(key))
    /\ inodes' = Reap(dir', inodes, OpenFds(t))
    /\ delStarted' = [delStarted EXCEPT !["fs"] = @ \cup {key}]
    /\ shadow' = [shadow EXCEPT !["fs"] = StoreDelete(@, key)]
    /\ sres' = [sres EXCEPT ![t] = SDeleted("fs", key)]
    /\ UNCHANGED <<backend, keychain, spc, sop, everSet, cacheVars, regVars, pipeVars, apiVars>>

(***************************************************************************)
(* KeychainStore                                                           *)
(***************************************************************************)
\* set, first call: let _ = delete_generic_password(service, key)
KcSetDelete(t, key, value, mode) ==
    /\ spc[t] = "idle"
    /\ backend = "kc"
    /\ SIssue(mode)
    /\ keychain' = StoreDelete(keychain, key)
    /\ sop' = [sop EXCEPT ![t] = [op |-> "set", backend |-> "kc", key |-> key,
                                  value |-> value, fd |-> 0, had |-> FALSE]]
    /\ spc' = [spc EXCEPT ![t] = "kc_insert"]
    /\ everSet' = [everSet EXCEPT !["kc"] = @ \cup {<<key, value>>}]
    /\ UNCHANGED <<backend, dir, inodes, sres, shadow, delStarted, cacheVars, regVars, pipeVars, apiVars>>

\* set, second call: set_generic_password(service, key, value) succeeds
KcSetInsert(t) ==
    /\ spc[t] = "kc_insert"
    /\ keychain' = StoreSet(keychain, sop[t].key, sop[t].value)
    /\ shadow' = [shadow EXCEPT !["kc"] = StoreSet(@, sop[t].key, sop[t].value)]
    /\ SReturn(t, SSet("kc", sop[t].key, TRUE, ""))
    /\ UNCHANGED <<backend, dir, inodes, everSet, delStarted, scalls, cacheVars, regVars, pipeVars, apiVars>>

\* set, second call: set_generic_password fails, set returns the error
KcSetFail(t) ==
    /\ spc[t] = "kc_insert"
    /\ SReturn(t, SSet("kc", sop[t].key, FALSE, "Keychain set failed"))
    /\ UNCHANGED <<backend, dir, inodes, keychain, shadow, everSet, delStarted, scalls, cacheVars, regVars, pipeVars, apiVars>>

\* get: get_generic_password; ItemNotFound is Ok(None)
KcGet(t, key, mode) ==
    /\ spc[t] = "idle"
    /\ backend = "kc"
    /\ SIssue(mode)
    /\ sres' = [sres EXCEPT ![t] =
            SGot("kc", key, StoreGet(keychain, key), StoreGet(shadow["kc"], key),
                 key \in DOMAIN shadow["kc"] /\ key \notin delStarted["kc"], ValsOf("kc", key))]
    /\ UNCHANGED <<backend, dir, inodes, keychain, spc, sop, shadow, everSet, delStarted, cacheVars, regVars, pipeVars, apiVars>>

\* delete: delete_generic_password; ItemNotFound is Ok(())
KcDelete(t, key, mode) ==
    /\ spc[t] = "idle"
    /\ backend = "kc"
    /\ SIssue(mode)
    /\ keychain' = StoreDelete(keychain, key)
    /\ delStarted' = [delStarted EXCEPT !["kc"] = @ \cup {key}]
    /\ shadow' = [shadow EXCEPT !["kc"] = StoreDelete(@, key)]
    /\ sres' = [sres EXCEPT ![t] = SDeleted("kc", key)]
    /\ UNCHANGED <<backend, dir, inodes, spc, sop, everSet, cacheVars, regVars, pipeVars, apiVars>>

(***************************************************************************)
(* Properties of the secret stores                                         *)
(***************************************************************************)
\* what a get(key) issued now on the idle FileStore would return
FsPeek(key) ==
    LET path == key_to_filename(key) IN
    IF path \in DOMAIN dir THEN Some(inodes[dir[path]].data) ELSE None

\* C7: with calls made one after the other, on either backend get(k) returns
\* the value of the latest set(k, .) that no delete(k) followed and None
\* otherwise, whatever was done to the other keys in between.
C7_MapSemantics ==
    /\ \A t \in SeqTasks : sres[t].kind = "get" => sres[t].opt = sres[t].want
    /\ (\A t \in Tasks : spc[t] = "idle") =>
          \A k \in StoreKeys :
              /\ FsPeek(k) = StoreGet(shadow["fs"], k)
              /\ StoreGet(keychain, k) = StoreGet(shadow["kc"], k)

\* a get found the value set for its key after a delete of that key, while
\* the other key holds another value
C7_Witness ==
    /\ sres["t1"].kind = "get"
    /\ sres["t1"].opt = Some(<<2, 3>>)
    /\ \E k \in StoreKeys \ {sres["t1"].key} :
          StoreGet(shadow[sres["t1"].backend], k) = Some(<<1>>)
    /\ sres["t1"].key \in delStarted[sres["t1"].backend]

\* C8: a get(k) on a key that held a value when the get began and that no
\* delete was ever issued for returns one of the values passed to set(k, .),
\* never None and never anything else, whatever sets run, fail or are
\* dropped meanwhile; on both backends.
C8_SetIsAtomic ==
    \A t \in Tasks :
        (sres[t].kind = "get" /\ sres[t].must) =>
            (sres[t].opt.some /\ sres[t].opt.v \in sres[t].vals)

\* C9: no FileStore set fails because of another set on the same key, and
\* once all calls have returned every key that has a file holds one of the
\* values passed to set for it.
C9_ConcurrentSets ==
    /\ \A t \in Tasks :
          (sres[t].kind = "set" /\ sres[t].backend = "fs") => sres[t].err # "NotFound"
    /\ (\A t \in Tasks : spc[t] = "idle") =>
          \A k \in StoreKeys :
              FsPeek(k).some => FsPeek(k).v \in ValsOf("fs", k)


(***************************************************************************)
(* PluginRuntime (acp-lib/src/plugin_runtime.rs).  The Boa context is the   *)
(* global bindings and the objects they reach; a script is the syntax tree *)
(* of an expression and execute evaluates it as ECMAScript does.  Of the   *)
(* ACP namespace only ACP.crypto.hmac is modelled.                         *)
(***************************************************************************)
\* number of scripts executed in one run
MaxExecutions == 2

\* ---- JavaScript values
Undefined == [t |-> "undefined"]
Null == [t |-> "null"]
JsBool(b) == [t |-> "boolean", b |-> b]
JsNum(n) == [t |-> "number", n |-> n]
\* a string written in a script
JsStr(s) == [t |-> "string", s |-> s]
\* a string built by native code, as its characters
JsText(chars) == [t |-> "string", chars |-> chars]
\* an array of numbers
JsArray(bytes) == [t |-> "array", bytes |-> bytes]
\* an object with a length property and integer-indexed entries, each a value
ArrayLike(length, entries) == [t |-> "array-like", length |-> length, entries |-> entries]
\* a reference to an object of the context
JsObj(id) == [t |-> "object", id |-> id]
\* the global object
GlobalThis == [t |-> "global"]
\* the completion value of a source text that eval or a dynamic function ran
Evaluated(source) == [t |-> "evaluated", source |-> source]
\* a function built from a source text by the Function constructor
DynamicFunction(source) == [t |-> "dynamic function", source |-> source]

\* ---- completions
Value(v) == [kind |-> "value", v |-> v]
Throw(error, message) == [kind |-> "throw", error |-> error, message |-> message]

\* ---- objects: what calling one does, its [[Prototype]] and its own properties
NoProps == [p \in {} |-> Undefined]
Object(behaviour, proto, props) == [call |-> behaviour, proto |-> proto, props |-> props]
NotCallable == [kind |-> "none"]
Native(name) == [kind |-> "native", name |-> name]
\* function() { throw new Error(message); }
Throwing(message) == [kind |-> "throw", message |-> message]
\* a function of the setup script that calls a native with its own arguments
Wrapper(name) == [kind |-> "wrapper", name |-> name]
\* a function of the setup script that calls one of two natives, by its second argument
Switch(encode, decode) == [kind |-> "switch", encode |-> encode, decode |-> decode]

\* Context::default(): of the names the sandbox deals with, Boa defines eval
\* and Function; it has no fetch, XMLHttpRequest or WebAssembly
DefaultContext ==
    [global |-> ("eval" :> JsObj("%eval%")) @@ ("Function" :> JsObj("%Function%")),
     objects |->
        ("%eval%" :> Object(Native("PerformEval"), "%Function.prototype%", NoProps))
        @@ ("%Function%" :> Object(Native("CreateDynamicFunction"), "%Function.prototype%",
                                   "prototype" :> JsObj("%Function.prototype%")))
        @@ ("%Function.prototype%" :> Object(NotCallable, "null",
                                             "constructor" :> JsObj("%Function%")))]

\* name = value at the top level of a sloppy-mode script
SetGlobal(c, name, value) == [c EXCEPT !.global = (name :> value) @@ @]
\* a new object of the context
NewObject(c, id, object) == [c EXCEPT !.objects = (id :> object) @@ @]
\* name = function() { throw new Error(message); }
SetThrowing(c, name, id, message) ==
    SetGlobal(NewObject(c, id, Object(Throwing(message), "%Function.prototype%", NoProps)),
              name, JsObj(id))
\* object.property = value
SetProp(c, id, property, value) ==
    [c EXCEPT !.objects[id].props = (property :> value) @@ @]

\* [[Get]]: own property, else along the prototype chain, else undefined
RECURSIVE Get(_, _, _)
Get(c, id, property) ==
    IF id = "null" THEN Undefined
    ELSE IF property \in DOMAIN c.objects[id].props THEN c.objects[id].props[property]
    ELSE Get(c, c.objects[id].proto, property)

IsCallable(c, v) == v.t = "dynamic function" \/ (v.t = "object" /\ c.objects[v.id].call.kind # "none")
\* typeof of a value
TypeOf(c, v) ==
    IF IsCallable(c, v) THEN "function"
    ELSE IF v.t \in {"undefined", "boolean", "number", "string"} THEN v.t
    ELSE "object"
\* typeof name: an undeclared name gives "undefined" and does not throw
TypeofName(c, name) ==
    IF name \notin DOMAIN c.global THEN "undefined" ELSE TypeOf(c, c.global[name])

\* ---- conversions between JavaScript values and bytes
\* String::into_bytes for the strings the scripts write (UTF-8)
into_bytes(s) ==
    CASE s = "key" -> <<107, 101, 121>>
      [] s = "k2" -> <<107, 50>>
      [] s = "message" -> <<109, 101, 115, 115, 97, 103, 101>>
      [] s = "m2" -> <<109, 50>>
      [] OTHER -> <<>>
\* f64 as u8: the cast saturates
AsU8(n) == IF n < 0 THEN 0 ELSE IF n > 255 THEN 255 ELSE n

\* obj.get(i): entry i of an array-like object, counted from 0
EntryAt(value, i) == IF i + 1 <= Len(value.entries) THEN value.entries[i + 1] ELSE Undefined

\* js_value_to_bytes, for a string, an array of numbers, an object with
\* entries of any kind, or a primitive
js_value_to_bytes(value) ==
    IF value.t = "string" THEN Value(into_bytes(value.s))
    ELSE IF value.t = "array" THEN Value([i \in 1..Len(value.bytes) |-> AsU8(value.bytes[i])])
    ELSE IF value.t = "array-like"
    THEN IF value.length.t # "number"
         THEN Throw("TypeError", "Expected array-like object with length property")
         ELSE LET len == IF value.length.n < 0 THEN 0 ELSE value.length.n
              IN  IF \E i \in 0..(len - 1) : EntryAt(value, i).t # "number"
                  THEN Throw("TypeError", "Array element must be number")
                  ELSE Value([i \in 1..len |-> AsU8(EntryAt(value, i - 1).n)])
    ELSE Throw("TypeError", "Expected string or array-like object")

\* bytes_to_js_array
bytes_to_js_array(bytes) == Value(JsArray(bytes))

\* hex::encode: two lowercase digits a byte
HexDigits == <<"0", "1", "2", "3", "4", "5", "6", "7", "8", "9", "a", "b", "c", "d", "e", "f">>
hex_encode(bytes) ==
    [i \in 1..(2 * Len(bytes)) |->
        IF i % 2 = 1 THEN HexDigits[(bytes[(i + 1) \div 2] \div 16) + 1]
        ELSE HexDigits[(bytes[i \div 2] % 16) + 1]]

\* base64::prelude::BASE64_STANDARD.encode: the alphabet of RFC 4648 section 4,
\* three bytes to four characters, the last group padded with "="
StandardAlphabet ==
    <<"A", "B", "C", "D", "E", "F", "G", "H", "I", "J", "K", "L", "M", "N", "O", "P",
     "Q", "R", "S", "T", "U", "V", "W", "X", "Y", "Z", "a", "b", "c", "d", "e", "f",
     "g", "h", "i", "j", "k", "l", "m", "n", "o", "p", "q", "r", "s", "t", "u", "v",
     "w", "x", "y", "z", "0", "1", "2", "3", "4", "5", "6", "7", "8", "9", "+", "/">>
ByteAt(bytes, i) == IF i <= Len(bytes) THEN bytes[i] ELSE 0
Sextet(bytes, g, k) ==
    LET triple == ByteAt(bytes, 3 * g + 1) * 65536 + ByteAt(bytes, 3 * g + 2) * 256
                  + ByteAt(bytes, 3 * g + 3)
    IN  CASE k = 0 -> triple \div 262144
          [] k = 1 -> (triple \div 4096) % 64
          [] k = 2 -> (triple \div 64) % 64
          [] OTHER -> triple % 64
BASE64_STANDARD_encode(bytes) ==
    [j \in 1..(4 * ((Len(bytes) + 2) \div 3)) |->
        LET g == (j - 1) \div 4
            k == (j - 1) % 4
        IN  IF k >= 2 /\ 3 * g + k > Len(bytes) THEN "="
            ELSE StandardAlphabet[Sextet(bytes, g, k) + 1]]
\* Hmac::<Sha256>::new_from_slice(key), update(data), finalize(): HMAC-SHA-256
\* (RFC 2104, FIPS 180-4) tabulated for the keys and messages of the scripts
HmacSha256(key_bytes, data_bytes) ==
    CASE key_bytes = <<107, 101, 121>> /\ data_bytes = <<109, 101, 115, 115, 97, 103, 101>> ->
            <<110, 158, 242, 155, 117, 255, 252, 91, 122, 186, 229, 39, 213, 143, 218, 219, 47, 228, 46, 114, 25, 1, 25, 118, 145, 115, 67, 6, 95, 88, 237, 74>>
      [] key_bytes = <<107, 101, 121>> /\ data_bytes = <<109, 50>> ->
            <<67, 252, 133, 89, 91, 83, 171, 77, 155, 140, 205, 70, 137, 78, 84, 180, 125, 68, 182, 14, 43, 109, 39, 156, 126, 199, 122, 4, 89, 51, 224, 179>>
      [] key_bytes = <<107, 50>> /\ data_bytes = <<109, 101, 115, 115, 97, 103, 101>> ->
            <<136, 205, 249, 31, 127, 209, 138, 223, 49, 55, 82, 194, 182, 253, 93, 92, 210, 179, 201, 63, 39, 92, 212, 72, 126, 90, 206, 91, 51, 189, 176, 10>>
      [] key_bytes = <<107, 50>> /\ data_bytes = <<109, 50>> ->
            <<249, 237, 58, 98, 191, 129, 54, 143, 251, 11, 187, 71, 13, 39, 187, 213, 39, 210, 188, 190, 39, 231, 58, 139, 13, 105, 229, 25, 167, 26, 220, 166>>
      [] OTHER -> <<>>

\* args.get_or_undefined(i)
get_or_undefined(args, i) == IF i + 1 <= Len(args) THEN args[i + 1] ELSE Undefined

\* hmac_fn, registered as __acp_native_hmac
hmac_fn(args) ==
    LET key_bytes == js_value_to_bytes(get_or_undefined(args, 0))
        data_bytes == js_value_to_bytes(get_or_undefined(args, 1))
        encoding == get_or_undefined(args, 2)
        encoding_str == IF encoding.t = "string" THEN encoding.s ELSE "hex"
    IN  IF key_bytes.kind = "throw" THEN key_bytes
        ELSE IF data_bytes.kind = "throw" THEN data_bytes
        ELSE LET digest == HmacSha256(key_bytes.v, data_bytes.v)
             IN  CASE encoding_str = "hex" -> Value(JsText(hex_encode(digest)))
                   [] encoding_str = "base64" -> Value(JsText(BASE64_STANDARD_encode(digest)))
                   [] OTHER -> bytes_to_js_array(digest)

\* hex_encode_fn, registered as __acp_native_hex_encode
hex_encode_fn(args) ==
    LET bytes == js_value_to_bytes(get_or_undefined(args, 0))
    IN  IF bytes.kind = "throw" THEN bytes ELSE Value(JsText(hex_encode(bytes.v)))

\* hex::decode for the strings the scripts write
hex_decode(s) ==
    CASE s = "6b6579" -> Value(<<107, 101, 121>>)
      [] s = "" -> Value(<<>>)
      [] OTHER -> Throw("TypeError", "Hex decode error")

\* hex_decode_fn, registered as __acp_native_hex_decode
hex_decode_fn(args) ==
    LET data == get_or_undefined(args, 0)
    IN  IF data.t # "string" THEN Throw("TypeError", "Expected string for hex decode")
        ELSE IF hex_decode(data.s).kind = "throw" THEN hex_decode(data.s)
        ELSE bytes_to_js_array(hex_decode(data.s).v)

\* ToBoolean, and a || b
ToBoolean(v) ==
    ~ \/ v.t \in {"undefined", "null"}
      \/ v = JsBool(FALSE)
      \/ v = JsNum(0)
      \/ v = JsStr("")
Or(a, b) == IF ToBoolean(a) THEN a ELSE b

\* ---- scripts: the syntax tree of an expression; arguments are literals
Id(name) == [node |-> "id", name |-> name]
Mem(object, property) == [node |-> "member", object |-> object, property |-> property]
CallOf(callee, args) == [node |-> "call", callee |-> callee, args |-> args]
NewOf(callee, args) == [node |-> "new", callee |-> callee, args |-> args]

\* [[Call]] and [[Construct]] of a value
RECURSIVE Apply(_, _, _, _)
Apply(c, f, args, construct) ==
    IF ~IsCallable(c, f) THEN Throw("TypeError", "not a callable function")
    ELSE IF f.t = "dynamic function" THEN Value(Evaluated(f.source))
    ELSE LET behaviour == c.objects[f.id].call
         IN  CASE behaviour.kind = "throw" -> Throw("Error", behaviour.message)
               \* function(key, data, encoding) {
               \*     return __acp_native_hmac(key, data, encoding || 'hex'); }
               [] behaviour.kind = "wrapper" ->
                    IF behaviour.name \notin DOMAIN c.global
                    THEN Throw("ReferenceError", behaviour.name)
                    ELSE Apply(c, c.global[behaviour.name],
                               <<get_or_undefined(args, 0), get_or_undefined(args, 1),
                                 Or(get_or_undefined(args, 2), JsStr("hex"))>>, FALSE)
               \* function(data, decode) {
               \*     if (decode) { return __acp_native_hex_decode(data); }
               \*     return __acp_native_hex_encode(data); }
               [] behaviour.kind = "switch" ->
                    LET native == IF ToBoolean(get_or_undefined(args, 1))
                                  THEN behaviour.decode ELSE behaviour.encode
                    IN  IF native \notin DOMAIN c.global THEN Throw("ReferenceError", native)
                        ELSE Apply(c, c.global[native], <<get_or_undefined(args, 0)>>, FALSE)
               [] behaviour.name = "hmac_fn" -> hmac_fn(args)
               [] behaviour.name = "hex_encode_fn" -> hex_encode_fn(args)
               [] behaviour.name = "hex_decode_fn" -> hex_decode_fn(args)
               \* eval(x): the completion value of the source x, x itself if no string
               [] behaviour.name = "PerformEval" ->
                    IF construct THEN Throw("TypeError", "not a constructor")
                    ELSE IF get_or_undefined(args, 0).t = "string"
                    THEN Value(Evaluated(get_or_undefined(args, 0).s))
                    ELSE Value(get_or_undefined(args, 0))
               \* Function(body) and new Function(body)
               [] OTHER -> Value(DynamicFunction(get_or_undefined(args, 0).s))

\* Context::eval of an expression
RECURSIVE Evaluate(_, _)
Evaluate(c, e) ==
    CASE e.node = "id" ->
            IF e.name = "globalThis" THEN Value(GlobalThis)
            ELSE IF e.name \in DOMAIN c.global THEN Value(c.global[e.name])
            ELSE Throw("ReferenceError", e.name)
      [] e.node = "member" ->
            LET o == Evaluate(c, e.object)
            IN  IF o.kind = "throw" THEN o
                ELSE IF o.v.t \in {"undefined", "null"}
                THEN Throw("TypeError", "cannot convert 'null' or 'undefined' to object")
                ELSE IF o.v.t = "global"
                THEN Value(IF e.property \in DOMAIN c.global THEN c.global[e.property]
                           ELSE Undefined)
                ELSE IF o.v.t = "object" THEN Value(Get(c, o.v.id, e.property))
                ELSE Value(Undefined)
      [] OTHER ->
            LET f == Evaluate(c, e.callee)
            IN  IF f.kind = "throw" THEN f ELSE Apply(c, f.v, e.args, e.node = "new")

\* ---- construction
\* register_global_builtin_callable(name, native)
Register(c, name, native) ==
    SetGlobal(NewObject(c, name, Object(Native(native), "%Function.prototype%", NoProps)),
              name, JsObj(name))

\* setup_acp_globals: register_crypto_natives, register_util_natives, then
\* var ACP = { crypto: { hmac: .. }, util: { hex: .. } }
setup_acp_globals(c) ==
    LET natives == Register(Register(Register(c, "__acp_native_hmac", "hmac_fn"),
                                     "__acp_native_hex_encode", "hex_encode_fn"),
                            "__acp_native_hex_decode", "hex_decode_fn")
        hmac == NewObject(natives, "ACP.crypto.hmac",
                          Object(Wrapper("__acp_native_hmac"), "%Function.prototype%", NoProps))
        crypto == NewObject(hmac, "ACP.crypto",
                            Object(NotCallable, "null", "hmac" :> JsObj("ACP.crypto.hmac")))
        hex == NewObject(crypto, "ACP.util.hex",
                         Object(Switch("__acp_native_hex_encode", "__acp_native_hex_decode"),
                                "%Function.prototype%", NoProps))
        util == NewObject(hex, "ACP.util",
                          Object(NotCallable, "null", "hex" :> JsObj("ACP.util.hex")))
        acp == NewObject(util, "ACP",
                         Object(NotCallable, "null",
                                ("crypto" :> JsObj("ACP.crypto")) @@ ("util" :> JsObj("ACP.util"))))
    IN  SetGlobal(acp, "ACP", JsObj("ACP"))

\* apply_sandbox: the sandbox script, statement by statement
apply_sandbox(c) ==
    LET c1 == IF TypeofName(c, "fetch") # "undefined"
              THEN SetThrowing(c, "fetch", "sandbox fetch", "fetch is not allowed in plugin sandbox")
              ELSE c
        c2 == IF TypeofName(c1, "XMLHttpRequest") # "undefined"
              THEN SetThrowing(c1, "XMLHttpRequest", "sandbox XMLHttpRequest",
                               "XMLHttpRequest is not allowed in plugin sandbox")
              ELSE c1
        c3 == IF TypeofName(c2, "eval") # "undefined"
              THEN SetThrowing(c2, "eval", "sandbox eval", "eval is not allowed in plugin sandbox")
              ELSE c2
        c4 == IF TypeofName(c3, "Function") # "undefined"
              THEN LET OriginalFunction == c3.global["Function"]
                       replaced == SetThrowing(c3, "Function", "sandbox Function",
                                       "Function constructor is not allowed in plugin sandbox")
                   IN  SetProp(replaced, "sandbox Function", "prototype",
                               Get(c3, OriginalFunction.id, "prototype"))
              ELSE c3
    IN  IF TypeofName(c4, "WebAssembly") # "undefined"
        THEN SetGlobal(c4, "WebAssembly", Undefined)
        ELSE c4

\* ---- the scripts a plugin may hand to execute
Script(source, ast) == [source |-> source, ast |-> ast]
NoScript == Script("", Id(""))

\* expressions that start from one of the names the sandbox deals with
SandboxScripts ==
    {Script("fetch('https://example.com')",
            CallOf(Id("fetch"), <<JsStr("https://example.com")>>)),
     Script("globalThis.fetch", Mem(Id("globalThis"), "fetch")),
     Script("new XMLHttpRequest()", NewOf(Id("XMLHttpRequest"), <<>>)),
     Script("eval('1 + 1')", CallOf(Id("eval"), <<JsStr("1 + 1")>>)),
     Script("globalThis.eval('1 + 1')",
            CallOf(Mem(Id("globalThis"), "eval"), <<JsStr("1 + 1")>>)),
     Script("new Function('return 1')", NewOf(Id("Function"), <<JsStr("return 1")>>)),
     Script("new Function('return 1')()",
            CallOf(NewOf(Id("Function"), <<JsStr("return 1")>>), <<>>)),
     Script("Function('return 1')", CallOf(Id("Function"), <<JsStr("return 1")>>)),
     Script("WebAssembly", Id("WebAssembly")),
     Script("globalThis.WebAssembly", Mem(Id("globalThis"), "WebAssembly")),
     Script("WebAssembly.compile(bytes)",
            CallOf(Mem(Id("WebAssembly"), "compile"), <<JsArray(<<0, 97, 115, 109>>)>>)),
     Script("Function.prototype.constructor('return 1')()",
            CallOf(CallOf(Mem(Mem(Id("Function"), "prototype"), "constructor"),
                          <<JsStr("return 1")>>), <<>>)),
     Script("eval.constructor('return 1')()",
            CallOf(CallOf(Mem(Id("eval"), "constructor"), <<JsStr("return 1")>>), <<>>))}

\* ACP.crypto.hmac(key, data) and ACP.crypto.hmac(key, data, encoding)
HmacKeys == {JsStr("key"), JsStr("k2"), JsArray(<<107, 101, 121>>), JsNum(7)}
HmacData == {JsStr("message"), JsStr("m2")}
Encodings ==
    {JsStr("hex"), JsStr("base64"), JsStr("bytes"), JsStr("raw"), JsStr("HEX"), JsStr(""),
     Undefined, Null, JsNum(0), JsNum(16)}
HmacArgs ==
    {<<key, data>> : key \in HmacKeys, data \in HmacData}
    \cup {<<key, data, encoding>> : key \in HmacKeys, data \in HmacData, encoding \in Encodings}
AcpCryptoHmac == Mem(Mem(Id("ACP"), "crypto"), "hmac")
HmacScripts ==
    {Script("ACP.crypto.hmac(...)", CallOf(AcpCryptoHmac, args)) : args \in HmacArgs}
    \cup {Script("__acp_native_hmac(...)", CallOf(Id("__acp_native_hmac"), args)) :
            args \in {a \in HmacArgs : a[1] = JsStr("key") /\ a[2] = JsStr("message")}}

\* ACP.util.hex(data) and ACP.util.hex(text, true)
HexData ==
    {JsStr("key"), JsStr("message"),
     ArrayLike(JsNum(0), <<>>),
     ArrayLike(JsNum(3), <<JsNum(107), JsNum(101), JsNum(121)>>),
     ArrayLike(JsNum(2), <<JsNum(0), JsNum(255)>>),
     ArrayLike(JsNum(2), <<JsNum(256), JsNum(1)>>),
     ArrayLike(JsNum(1), <<JsNum(257)>>),
     ArrayLike(JsNum(1), <<JsNum(-1)>>),
     ArrayLike(JsNum(2), <<JsNum(300), JsNum(-200)>>),
     ArrayLike(JsNum(1), <<JsStr("a")>>),
     ArrayLike(JsNum(2), <<JsNum(1)>>),
     ArrayLike(Undefined, <<>>),
     JsNum(7), JsBool(TRUE), Undefined, Null}
AcpUtilHex == Mem(Mem(Id("ACP"), "util"), "hex")
HexScripts ==
    {Script("ACP.util.hex(data)", CallOf(AcpUtilHex, <<data>>)) : data \in HexData}
    \cup {Script("ACP.util.hex(text, true)", CallOf(AcpUtilHex, <<text, JsBool(TRUE)>>)) :
            text \in {JsStr("6b6579"), JsStr("key"), JsNum(7)}}

Scripts == SandboxScripts \cup HmacScripts \cup HexScripts

\* ---- PluginRuntime
NoExecution == [ran |-> FALSE, script |-> NoScript, outcome |-> Value(Undefined)]

InitJs ==
    /\ context = None
    /\ executed = NoExecution
    /\ executions = 0

\* PluginRuntime::new
RuntimeNew ==
    /\ ~context.some
    /\ executions < MaxExecutions
    /\ context' = Some(apply_sandbox(setup_acp_globals(DefaultContext)))
    /\ UNCHANGED <<executed, executions>>
    /\ UNCHANGED <<cacheVars, regVars, fsVars, apiVars, rtVars, ppc, pin, ploc, pres, sandbox>>

\* PluginRuntime::execute(code), for code that assigns nothing
RuntimeExecute(script) ==
    /\ context.some
    /\ executions < MaxExecutions
    /\ executed' = [ran |-> TRUE, script |-> script,
                    outcome |-> Evaluate(context.v, script.ast)]
    /\ executions' = executions + 1
    /\ UNCHANGED context
    /\ UNCHANGED <<cacheVars, regVars, fsVars, apiVars, rtVars, ppc, pin, ploc, pres, sandbox>>

\* the runtime is dropped
RuntimeDrop ==
    /\ context.some
    /\ context' = None
    /\ UNCHANGED <<executed, executions>>
    /\ UNCHANGED <<cacheVars, regVars, fsVars, apiVars, rtVars, ppc, pin, ploc, pres, sandbox>>
(***************************************************************************)
(* Request transform pipeline: parse_and_transform, load_plugin_credentials *)
(* (proxy_transforms.rs) and find_matching_plugin (plugin_matcher.rs).     *)
(* An action ends where the code awaits store or registry I/O; the         *)
(* synchronous stretch that owns a PluginRuntime is cut further, at the    *)
(* creation and at the drop of the runtime, so that its lifetime shows.    *)
(***************************************************************************)
PluginNames == {"exa", "s3"}
Hosts ==
    {<<"API", "exa", "ai">>, <<"bucket", "s3", "amazonaws", "com">>,
     <<"a", "b", "s3", "amazonaws", "com">>, <<"other", "exa", "ai">>, <<"example", "com">>}

\* ---- bytes in the store and on the wire
JsBytes(js) == [kind |-> "js", js |-> js]
Utf8(s) == [kind |-> "utf8", utf8 |-> s]
WellFormed == [kind |-> "http", wire |-> "as received",
               req |-> [method |-> "GET", url |-> "/search", headers |-> {}]]
Malformed == RawBytes("not http")
Requests == {WellFormed, Malformed}

\* http_utils::parse_http_request
parse_http_request(bytes) ==
    IF bytes.kind = "http" THEN [ok |-> TRUE, req |-> bytes.req] ELSE [ok |-> FALSE]

\* http_utils::serialize_http_request: the wire form is built afresh
serialize_http_request(req) == [kind |-> "http", wire |-> "serialized", req |-> req]

\* ---- plugin code
BrokenJs == [valid |-> FALSE, patterns |-> {}, schema |-> <<>>, transform |-> "none"]
GoodJs(name) ==
    [valid |-> TRUE,
     patterns |-> IF name = "exa" THEN {<<"api", "exa", "ai">>}
                  ELSE {<<"*", "s3", "amazonaws", "com">>},
     schema |-> IF name = "exa" THEN <<"api_key">> ELSE <<"access_key">>,
     transform |-> "function"]
OtherJs(name) ==
    [valid |-> TRUE,
     patterns |-> IF name = "exa" THEN {<<"*", "exa", "ai">>}
                  ELSE {<<"s3", "amazonaws", "com">>, <<"*", "exa", "ai">>},
     schema |-> <<>>,
     transform |-> "throws"]

\* String::from_utf8_lossy of stored bytes, read as plugin code
CodeLossy(bytes) == IF bytes.kind = "js" THEN bytes.js ELSE BrokenJs
\* String::from_utf8 of stored bytes
FromUtf8(bytes) == bytes.kind \in {"js", "utf8"}

\* PluginRuntime::load_plugin_from_code
NoPlugin == [name |-> "", match_patterns |-> {}]
load_plugin_from_code(name, code) ==
    IF code.valid
    THEN [ok |-> TRUE, plugin |-> [name |-> name, match_patterns |-> code.patterns]]
    ELSE [ok |-> FALSE]

\* ASCII lower case of the labels in use
Lower(label) ==
    IF label = "API" THEN "api" ELSE label

\* one pattern against one host, label by label
Admits(pattern, host) ==
    /\ Len(pattern) = Len(host)
    /\ \A i \in 1..Len(host) :
          \/ pattern[i] = "*" /\ host[i] # ""
          \/ Lower(pattern[i]) = Lower(host[i])

\* ACPPlugin::matches_host
matches_host(plugin, host) == \E p \in plugin.match_patterns : Admits(p, host)

\* PluginRuntime::execute_transform
execute_transform(code, req, credentials) ==
    IF code.transform = "function"
    THEN [ok |-> TRUE, req |-> [req EXCEPT !.headers = @ \cup {<<"x-api-key", credentials>>}]]
    ELSE [ok |-> FALSE]

\* ---- the globals plugin code leaves in the runtime that evaluates it, each
\* with the plugin it came from
NoGlobals == {}
\* the code is evaluated: var plugin = { ... }
Defines(name, code) == IF code.valid THEN {<<"plugin", name>>} ELSE {}
\* plugin.transform(request, credentials) runs, and may assign globals
Transforms(name, code) == IF code.valid THEN {<<"set by transform", name>>} ELSE {}

\* ---- results
PPending == [kind |-> "pending"]
POk(bytes) == [kind |-> "ok", bytes |-> bytes]
PErr(e) == [kind |-> "err", err |-> e]
PUnit == [kind |-> "unit"]

\* variant that returns the parsed request serialized again
PassThroughReserialized(request_bytes) ==
    POk(serialize_http_request(parse_http_request(request_bytes).req))

\* proxy_transforms.rs: return Ok(request_bytes.to_vec())
PassThrough(request_bytes) == POk(request_bytes)

NoInput ==
    [op |-> "none", request_bytes |-> Malformed, hostname |-> <<>>, nomatch |-> FALSE,
     before |-> EmptyStore]
NoLocals ==
    [entries |-> <<>>, code |-> BrokenJs, plugin |-> NoPlugin, matched |-> FALSE,
     credq |-> <<>>, credentials |-> {}, keys |-> <<>>, data |-> DefaultRegistryData,
     pending |-> PPending, ran |-> 0, existing |-> {}, bytes |-> RawBytes(""),
     admitted |-> BrokenJs]

\* the two migrations of Registry
Migrations == {"migrate_from_file_store", "migrate_old_token_format"}

\* history of the last completed call: its arguments, the store it started
\* from and left, the plugin find_matching_plugin gave it, the transforms run;
\* prior is the run before it when both are runs of a migration
NoPrior == [op |-> "none", out |-> PPending, before |-> EmptyStore, after |-> EmptyStore]
NoResult ==
    [out |-> PPending, op |-> "none", request_bytes |-> Malformed, hostname |-> <<>>,
     nomatch |-> FALSE, ran |-> 0, before |-> EmptyStore, after |-> EmptyStore, found |-> "",
     prior |-> NoPrior]

\* the run that completed just before a run of op that is about to return
PriorOf(op) ==
    IF op \in Migrations /\ pres.op \in Migrations
    THEN [op |-> pres.op, out |-> pres.out, before |-> pres.before, after |-> pres.after]
    ELSE NoPrior

\* the call returns r and leaves the store as after
PReturnWith(r, after) ==
    /\ pres' = [out |-> r, op |-> pin.op, request_bytes |-> pin.request_bytes,
                hostname |-> pin.hostname, nomatch |-> pin.nomatch, ran |-> ploc.ran,
                before |-> pin.before, after |-> after, found |-> ploc.plugin.name,
                prior |-> PriorOf(pin.op)]
    /\ ppc' = "idle"
    /\ pin' = NoInput
    /\ ploc' = NoLocals

\* the call returns r
PReturn(r) == PReturnWith(r, store)

\* patterns of the code stored for a plugin name, if it loads
StoredPatterns(s, name) ==
    LET got == StoreGet(s, PluginKey(name)) IN
    IF got.some /\ CodeLossy(got.v).valid THEN CodeLossy(got.v).patterns ELSE {}

\* no plugin of the registry admits the host, by the patterns of its entry
\* or by those of its stored code
NoPluginAdmits(s, host) ==
    LET r == RegistryLoad(s) IN
    /\ r.ok
    /\ \A i \in 1..Len(r.data.plugins) :
          \A p \in r.data.plugins[i].hosts \cup StoredPatterns(s, r.data.plugins[i].name) :
              ~Admits(p, host)

(***************************************************************************)
(* parse_and_transform, up to the first await                              *)
(***************************************************************************)
\* variant that looks for the plugin first and leaves parsing to the
\* transform step
PtParseAfterMatch(request_bytes, hostname) ==
    /\ ppc = "idle"
    /\ pin' = [op |-> "parse_and_transform", request_bytes |-> request_bytes,
               hostname |-> hostname, nomatch |-> NoPluginAdmits(store, hostname),
               before |-> store]
    /\ ppc' = "fm_list"
    /\ UNCHANGED <<pres, ploc, sandbox, cacheVars, regVars, fsVars, apiVars, jsVars, rtVars>>

PtParse(request_bytes, hostname) ==
    /\ ppc = "idle"
    /\ LET input == [op |-> "parse_and_transform", request_bytes |-> request_bytes,
                     hostname |-> hostname, nomatch |-> NoPluginAdmits(store, hostname),
                     before |-> store] IN
        IF parse_http_request(request_bytes).ok
        THEN /\ pin' = input
             /\ ppc' = "fm_list"
             /\ UNCHANGED <<pres, ploc>>
        ELSE /\ pres' = [out |-> PErr("HttpParse"), op |-> input.op, request_bytes |-> request_bytes,
                         hostname |-> hostname, nomatch |-> input.nomatch, ran |-> 0,
                         before |-> store, after |-> store, found |-> "",
                         prior |-> NoPrior]
             /\ UNCHANGED <<pin, ppc, ploc>>
    /\ UNCHANGED <<sandbox, cacheVars, regVars, fsVars, apiVars, jsVars, rtVars>>

(***************************************************************************)
(* find_matching_plugin                                                    *)
(***************************************************************************)
\* variant that walks the plugins from the last registered to the first
FmListPluginsReversed ==
    /\ ppc = "fm_list"
    /\ LET r == RegistryLoad(store) IN
        IF ~r.ok THEN PReturn(PErr("Storage"))
        ELSE IF r.data.plugins = <<>> THEN PReturn(PassThrough(pin.request_bytes))
        ELSE /\ ploc' = [ploc EXCEPT !.entries =
                            [i \in 1..Len(r.data.plugins) |->
                                r.data.plugins[Len(r.data.plugins) + 1 - i]]]
             /\ ppc' = "fm_get"
             /\ UNCHANGED <<pin, pres>>
    /\ UNCHANGED <<sandbox, cacheVars, regVars, fsVars, apiVars, jsVars, rtVars>>

\* registry.list_plugins().await returns
FmListPlugins ==
    /\ ppc = "fm_list"
    /\ LET r == RegistryLoad(store) IN
        IF ~r.ok THEN PReturn(PErr("Storage"))
        ELSE IF r.data.plugins = <<>> THEN PReturn(PassThrough(pin.request_bytes))
        ELSE /\ ploc' = [ploc EXCEPT !.entries = r.data.plugins]
             /\ ppc' = "fm_get"
             /\ UNCHANGED <<pin, pres>>
    /\ UNCHANGED <<sandbox, cacheVars, regVars, fsVars, apiVars, jsVars, rtVars>>

\* the loop moves to the next entry, or find_matching_plugin returns None and
\* parse_and_transform passes the request through
FmNext ==
    IF Len(ploc.entries) > 1
    THEN /\ ploc' = [ploc EXCEPT !.entries = Tail(@)]
         /\ ppc' = "fm_get"
         /\ UNCHANGED <<pin, pres>>
    ELSE PReturn(PassThrough(pin.request_bytes))

\* store.get("plugin:{name}").await returns for the entry at the head
FmGet ==
    /\ ppc = "fm_get"
    /\ LET got == StoreGet(store, PluginKey(Head(ploc.entries).name)) IN
        IF got.some
        THEN /\ ploc' = [ploc EXCEPT !.code = CodeLossy(got.v)]
             /\ ppc' = "fm_new"
             /\ UNCHANGED <<pin, pres>>
        ELSE FmNext
    /\ UNCHANGED <<sandbox, cacheVars, regVars, fsVars, apiVars, jsVars, rtVars>>

\* let mut runtime = PluginRuntime::new()?
FmSandboxNew ==
    /\ ppc = "fm_new"
    /\ runtimes' = <<NoGlobals>> \o runtimes
    /\ UNCHANGED dropped
    /\ sandbox' = sandbox + 1
    /\ ppc' = "fm_load"
    /\ UNCHANGED <<pin, ploc, pres, cacheVars, regVars, fsVars, apiVars, jsVars>>

\* variant that looks the host up among the hosts of the registry entry
FmLoadAndMatchByEntryHosts ==
    /\ ppc = "fm_load"
    /\ runtimes' = [runtimes EXCEPT ![1] = @ \cup Defines(Head(ploc.entries).name, ploc.code)]
    /\ UNCHANGED dropped
    /\ LET loaded == load_plugin_from_code(Head(ploc.entries).name, ploc.code) IN
        ploc' = IF loaded.ok /\ pin.hostname \in Head(ploc.entries).hosts
                THEN [ploc EXCEPT !.plugin = loaded.plugin, !.matched = TRUE,
                                  !.admitted = ploc.code]
                ELSE ploc
    /\ ppc' = "fm_drop"
    /\ UNCHANGED <<pin, pres, sandbox, cacheVars, regVars, fsVars, apiVars, jsVars>>

\* runtime.load_plugin_from_code(..) and plugin.matches_host(host); admitted
\* keeps, as history, the code whose matchPatterns admitted the host
FmLoadAndMatch ==
    /\ ppc = "fm_load"
    /\ runtimes' = [runtimes EXCEPT ![1] = @ \cup Defines(Head(ploc.entries).name, ploc.code)]
    /\ UNCHANGED dropped
    /\ LET loaded == load_plugin_from_code(Head(ploc.entries).name, ploc.code) IN
        ploc' = IF loaded.ok /\ matches_host(loaded.plugin, pin.hostname)
                THEN [ploc EXCEPT !.plugin = loaded.plugin, !.matched = TRUE,
                                  !.admitted = ploc.code]
                ELSE ploc
    /\ ppc' = "fm_drop"
    /\ UNCHANGED <<pin, pres, sandbox, cacheVars, regVars, fsVars, apiVars, jsVars>>

\* variant with the runtime declared outside the loop: it is dropped only
\* when find_matching_plugin returns
FmDropAtReturn ==
    /\ ppc = "fm_drop"
    /\ runtimes' = IF ploc.matched \/ Len(ploc.entries) = 1 THEN <<>> ELSE runtimes
    /\ dropped' = IF ploc.matched \/ Len(ploc.entries) = 1 THEN Head(runtimes) ELSE dropped
    /\ sandbox' = IF ploc.matched \/ Len(ploc.entries) = 1 THEN 0 ELSE sandbox
    /\ IF ploc.matched
       THEN /\ ppc' = "lc_list"
            /\ UNCHANGED <<pin, ploc, pres>>
       ELSE FmNext
    /\ UNCHANGED <<cacheVars, regVars, fsVars, apiVars, jsVars>>

\* the runtime goes out of scope: at the return of the match, or at the end
\* of the if-let block before the next entry is read
FmDrop ==
    /\ ppc = "fm_drop"
    /\ runtimes' = Tail(runtimes)
    /\ dropped' = Head(runtimes)
    /\ sandbox' = sandbox - 1
    /\ IF ploc.matched
       THEN /\ ppc' = "lc_list"
            /\ UNCHANGED <<pin, ploc, pres>>
       ELSE FmNext
    /\ UNCHANGED <<cacheVars, regVars, fsVars, apiVars, jsVars>>

(***************************************************************************)
(* load_plugin_credentials and the rest of parse_and_transform             *)
(***************************************************************************)
\* variant without the is_empty() test: the plugin code is read and the
\* transform run whatever was loaded
LcDoneUnchecked(credentials) ==
    /\ ploc' = [ploc EXCEPT !.credentials = credentials, !.credq = <<>>]
    /\ ppc' = "pt_code"
    /\ UNCHANGED <<pin, pres>>

\* credentials are loaded: pass through when there are none, else go on to
\* read the plugin code
LcDone(credentials) ==
    IF credentials = {}
    THEN PReturn(PassThrough(pin.request_bytes))
    ELSE /\ ploc' = [ploc EXCEPT !.credentials = credentials, !.credq = <<>>]
         /\ ppc' = "pt_code"
         /\ UNCHANGED <<pin, pres>>

\* variant that does not filter the entries by plugin
LcListUnfiltered ==
    /\ ppc = "lc_list"
    /\ LET r == RegistryLoad(store)
           mine == r.data.credentials IN
        IF ~r.ok THEN PReturn(PErr("Storage"))
        ELSE IF mine = <<>> THEN LcDone({})
        ELSE /\ ploc' = [ploc EXCEPT !.credq = mine]
             /\ ppc' = "lc_get"
             /\ UNCHANGED <<pin, pres>>
    /\ UNCHANGED <<sandbox, cacheVars, regVars, fsVars, apiVars, jsVars, rtVars>>

\* registry.list_credentials().await returns
LcList ==
    /\ ppc = "lc_list"
    /\ LET r == RegistryLoad(store)
           mine == SelectSeq(r.data.credentials, LAMBDA c : c.plugin = ploc.plugin.name) IN
        IF ~r.ok THEN PReturn(PErr("Storage"))
        ELSE IF mine = <<>> THEN LcDone({})
        ELSE /\ ploc' = [ploc EXCEPT !.credq = mine]
             /\ ppc' = "lc_get"
             /\ UNCHANGED <<pin, pres>>
    /\ UNCHANGED <<sandbox, cacheVars, regVars, fsVars, apiVars, jsVars, rtVars>>

\* store.get("credential:{plugin}:{field}").await returns
LcGet ==
    /\ ppc = "lc_get"
    /\ LET cred == Head(ploc.credq)
           got == StoreGet(store, CredentialKey(ploc.plugin.name, cred.field))
           credentials == IF got.some
                          THEN {c \in ploc.credentials : c[1] # cred.field}
                               \cup {<<cred.field, got.v.utf8>>}
                          ELSE ploc.credentials IN
        IF got.some /\ got.v.kind # "utf8" THEN PReturn(PErr("Storage"))
        ELSE IF Len(ploc.credq) > 1
        THEN /\ ploc' = [ploc EXCEPT !.credq = Tail(@), !.credentials = credentials]
             /\ UNCHANGED <<ppc, pin, pres>>
        ELSE LcDone(credentials)
    /\ UNCHANGED <<sandbox, cacheVars, regVars, fsVars, apiVars, jsVars, rtVars>>

\* store.get("plugin:{name}").await returns
PtCode ==
    /\ ppc = "pt_code"
    /\ LET got == StoreGet(store, PluginKey(ploc.plugin.name)) IN
        IF ~got.some \/ ~FromUtf8(got.v) THEN PReturn(PErr("Plugin"))
        ELSE /\ ploc' = [ploc EXCEPT !.code = CodeLossy(got.v)]
             /\ ppc' = "pt_new"
             /\ UNCHANGED <<pin, pres>>
    /\ UNCHANGED <<sandbox, cacheVars, regVars, fsVars, apiVars, jsVars, rtVars>>

\* variant that takes the runtime from a pool, as the last call left it
PtSandboxNewPooled ==
    /\ ppc = "pt_new"
    /\ runtimes' = <<dropped>> \o runtimes
    /\ UNCHANGED dropped
    /\ sandbox' = sandbox + 1
    /\ ppc' = "pt_run"
    /\ UNCHANGED <<pin, ploc, pres, cacheVars, regVars, fsVars, apiVars, jsVars>>

\* let mut runtime = PluginRuntime::new()?
PtSandboxNew ==
    /\ ppc = "pt_new"
    /\ runtimes' = <<NoGlobals>> \o runtimes
    /\ UNCHANGED dropped
    /\ sandbox' = sandbox + 1
    /\ ppc' = "pt_run"
    /\ UNCHANGED <<pin, ploc, pres, cacheVars, regVars, fsVars, apiVars, jsVars>>

\* runtime.load_plugin_from_code(..)?; runtime.execute_transform(..)?
PtRun ==
    /\ ppc = "pt_run"
    /\ runtimes' = [runtimes EXCEPT ![1] = @ \cup Defines(ploc.plugin.name, ploc.code)
                                             \cup Transforms(ploc.plugin.name, ploc.code)]
    /\ UNCHANGED dropped
    /\ LET loaded == load_plugin_from_code(ploc.plugin.name, ploc.code)
           done == execute_transform(ploc.code, parse_http_request(pin.request_bytes).req,
                                     ploc.credentials) IN
        ploc' = IF ~loaded.ok THEN [ploc EXCEPT !.pending = PErr("Plugin")]
                ELSE IF ~done.ok THEN [ploc EXCEPT !.pending = PErr("Plugin"), !.ran = @ + 1]
                ELSE [ploc EXCEPT !.pending = [kind |-> "ok", req |-> done.req], !.ran = @ + 1]
    /\ ppc' = "pt_drop"
    /\ UNCHANGED <<pin, pres, sandbox, cacheVars, regVars, fsVars, apiVars, jsVars>>

\* the block ends and the runtime is dropped; serialize_http_request and return
PtDrop ==
    /\ ppc = "pt_drop"
    /\ runtimes' = Tail(runtimes)
    /\ dropped' = Head(runtimes)
    /\ sandbox' = sandbox - 1
    /\ IF ploc.pending.kind = "ok"
       THEN PReturn(POk(serialize_http_request(ploc.pending.req)))
       ELSE PReturn(ploc.pending)
    /\ UNCHANGED <<cacheVars, regVars, fsVars, apiVars, jsVars>>

(***************************************************************************)
(* Registry::migrate_from_file_store (registry.rs)                         *)
(***************************************************************************)
\* String order of the names in use
NameOrder == <<"access_key", "acp_1", "acp_2", "api_key", "exa", "junk", "s3", "u1", "u1b", "u2">>
Rank(n) == CHOOSE i \in 1..Len(NameOrder) : NameOrder[i] = n
KeyLess(a, b) ==
    \/ Rank(a[2]) < Rank(b[2])
    \/ a[2] = b[2] /\ Len(a) > 2 /\ Len(b) > 2 /\ Rank(a[3]) < Rank(b[3])

\* keys.sort()
RECURSIVE SortKeys(_)
SortKeys(S) ==
    IF S = {} THEN <<>>
    ELSE LET m == CHOOSE x \in S : \A y \in S \ {x} : KeyLess(x, y) IN
         <<m>> \o SortKeys(S \ {m})

\* FileStore::list_internal(prefix): the keys under the prefix, sorted
list_internal(s, prefix) == SortKeys({k \in DOMAIN s : k[1] = prefix})

\* variant that also migrates when the registry exists but lists no plugin
MgCheckUnlessEmpty ==
    /\ ppc = "idle"
    /\ IF StoreGet(store, KEY).some /\ RegistryLoad(store).ok
          /\ RegistryLoad(store).data.plugins # <<>>
       THEN /\ pres' = [NoResult EXCEPT !.out = PUnit, !.op = "migrate_from_file_store",
                                        !.before = store, !.after = store,
                                        !.prior = PriorOf("migrate_from_file_store")]
            /\ UNCHANGED <<ppc, pin, ploc>>
       ELSE /\ pin' = [NoInput EXCEPT !.op = "migrate_from_file_store", !.before = store]
            /\ ppc' = "mg_tokens"
            /\ UNCHANGED <<ploc, pres>>
    /\ UNCHANGED <<sandbox, cacheVars, regVars, fsVars, apiVars, jsVars, rtVars>>

\* self.store.get(KEY).await: an existing registry ends the migration
MgCheck ==
    /\ ppc = "idle"
    /\ IF StoreGet(store, KEY).some
       THEN /\ pres' = [NoResult EXCEPT !.out = PUnit, !.op = "migrate_from_file_store",
                                        !.before = store, !.after = store,
                                        !.prior = PriorOf("migrate_from_file_store")]
            /\ UNCHANGED <<ppc, pin, ploc>>
       ELSE /\ pin' = [NoInput EXCEPT !.op = "migrate_from_file_store", !.before = store]
            /\ ppc' = "mg_tokens"
            /\ UNCHANGED <<ploc, pres>>
    /\ UNCHANGED <<sandbox, cacheVars, regVars, fsVars, apiVars, jsVars, rtVars>>

\* file_store.list_internal("token:").await returns
MgListTokens ==
    /\ ppc = "mg_tokens"
    /\ LET keys == list_internal(store, "token") IN
        /\ ploc' = [ploc EXCEPT !.keys = keys]
        /\ ppc' = IF keys = <<>> THEN "mg_plugins" ELSE "mg_token_get"
    /\ UNCHANGED <<pin, pres, sandbox, cacheVars, regVars, fsVars, apiVars, jsVars, rtVars>>

\* self.store.get(key).await returns for the token key at the head
MgTokenGet ==
    /\ ppc = "mg_token_get"
    /\ LET got == StoreGet(store, Head(ploc.keys))
           parsed == ParseToken(got.v)
           entry == [token_value |-> parsed.tok.token, name |-> parsed.tok.name,
                     created_at |-> parsed.tok.created_at] IN
        ploc' = [ploc EXCEPT !.keys = Tail(@),
                             !.data = IF got.some /\ parsed.ok THEN PushToken(@, entry) ELSE @]
    /\ ppc' = IF Len(ploc.keys) > 1 THEN "mg_token_get" ELSE "mg_plugins"
    /\ UNCHANGED <<pin, pres, sandbox, cacheVars, regVars, fsVars, apiVars, jsVars, rtVars>>

\* file_store.list_internal("plugin:").await returns
MgListPlugins ==
    /\ ppc = "mg_plugins"
    /\ LET keys == list_internal(store, "plugin") IN
        /\ ploc' = [ploc EXCEPT !.keys = keys]
        /\ ppc' = IF keys = <<>> THEN "mg_creds" ELSE "mg_plugin_get"
    /\ UNCHANGED <<pin, pres, sandbox, cacheVars, regVars, fsVars, apiVars, jsVars, rtVars>>

\* self.store.get(key).await returns for the plugin key at the head
MgPluginGet ==
    /\ ppc = "mg_plugin_get"
    /\ LET got == StoreGet(store, Head(ploc.keys)) IN
        IF got.some /\ FromUtf8(got.v)
        THEN /\ ploc' = [ploc EXCEPT !.code = CodeLossy(got.v)]
             /\ ppc' = "mg_new"
        ELSE /\ ploc' = [ploc EXCEPT !.keys = Tail(@)]
             /\ ppc' = IF Len(ploc.keys) > 1 THEN "mg_plugin_get" ELSE "mg_creds"
    /\ UNCHANGED <<pin, pres, sandbox, cacheVars, regVars, fsVars, apiVars, jsVars, rtVars>>

\* if let Ok(mut runtime) = PluginRuntime::new()
MgSandboxNew ==
    /\ ppc = "mg_new"
    /\ runtimes' = <<NoGlobals>> \o runtimes
    /\ UNCHANGED dropped
    /\ sandbox' = sandbox + 1
    /\ ppc' = "mg_extract"
    /\ UNCHANGED <<pin, ploc, pres, cacheVars, regVars, fsVars, apiVars, jsVars>>

\* runtime.execute(code) and runtime.extract_plugin_metadata(name)
MgExtract ==
    /\ ppc = "mg_extract"
    /\ runtimes' = [runtimes EXCEPT ![1] = @ \cup Defines(Head(ploc.keys)[2], ploc.code)]
    /\ UNCHANGED dropped
    /\ LET entry == [name |-> Head(ploc.keys)[2], hosts |-> ploc.code.patterns,
                     credential_schema |-> ploc.code.schema] IN
        ploc' = [ploc EXCEPT !.data = IF ploc.code.valid THEN PushPlugin(@, entry) ELSE @]
    /\ ppc' = "mg_drop"
    /\ UNCHANGED <<pin, pres, sandbox, cacheVars, regVars, fsVars, apiVars, jsVars>>

\* the if-let block ends and the runtime is dropped
MgDrop ==
    /\ ppc = "mg_drop"
    /\ runtimes' = Tail(runtimes)
    /\ dropped' = Head(runtimes)
    /\ sandbox' = sandbox - 1
    /\ ploc' = [ploc EXCEPT !.keys = Tail(@)]
    /\ ppc' = IF Len(ploc.keys) > 1 THEN "mg_plugin_get" ELSE "mg_creds"
    /\ UNCHANGED <<pin, pres, cacheVars, regVars, fsVars, apiVars, jsVars>>

\* the entries of the keys "credential:{plugin}:{field}", in order
RECURSIVE CredentialEntries(_)
CredentialEntries(keys) ==
    IF keys = <<>> THEN <<>>
    ELSE (IF Len(Head(keys)) = 3
          THEN <<[plugin |-> Head(keys)[2], field |-> Head(keys)[3]]>>
          ELSE <<>>) \o CredentialEntries(Tail(keys))

\* file_store.list_internal("credential:").await returns
MgListCreds ==
    /\ ppc = "mg_creds"
    /\ ploc' = [ploc EXCEPT !.data.credentials =
                    @ \o CredentialEntries(list_internal(store, "credential"))]
    /\ ppc' = "mg_save"
    /\ UNCHANGED <<pin, pres, sandbox, cacheVars, regVars, fsVars, apiVars, jsVars, rtVars>>

\* self.save(&data).await returns
MgSave ==
    /\ ppc = "mg_save"
    /\ store' = RegistrySave(store, ploc.data)
    /\ PReturnWith(PUnit, RegistrySave(store, ploc.data))
    /\ UNCHANGED <<sandbox, cache, pc, call, frame, result, minted, created, delCalled,
                   delReturned, calls, regVars, fsVars, apiVars, jsVars, rtVars>>


(***************************************************************************)
(* Registry::migrate_old_token_format (registry.rs)                        *)
(***************************************************************************)
\* self.store.as_any().downcast_ref::<FileStore>(): any other store ends
\* the migration
MoStart ==
    /\ ppc = "idle"
    /\ IF backend = "fs"
       THEN /\ pin' = [NoInput EXCEPT !.op = "migrate_old_token_format", !.before = store]
            /\ ppc' = "mo_list"
            /\ UNCHANGED <<ploc, pres>>
       ELSE /\ pres' = [NoResult EXCEPT !.out = PUnit, !.op = "migrate_old_token_format",
                                        !.before = store, !.after = store,
                                        !.prior = PriorOf("migrate_old_token_format")]
            /\ UNCHANGED <<ppc, pin, ploc>>
    /\ UNCHANGED <<sandbox, cacheVars, regVars, fsVars, apiVars, jsVars, rtVars>>

\* file_store.list_internal("token:").await returns
MoList ==
    /\ ppc = "mo_list"
    /\ ploc' = [ploc EXCEPT !.keys = list_internal(store, "token")]
    /\ ppc' = "mo_load"
    /\ UNCHANGED <<pin, pres, sandbox, cacheVars, regVars, fsVars, apiVars, jsVars, rtVars>>

\* the loop moves to the key at the head of keys, or to the save
MoAt(keys) == IF keys = <<>> THEN "mo_save" ELSE "mo_get"

\* self.load().await returns; existing_token_values is collected
MoLoad ==
    /\ ppc = "mo_load"
    /\ LET r == RegistryLoad(store) IN
        IF ~r.ok THEN PReturn(PErr("Storage"))
        ELSE /\ ploc' = [ploc EXCEPT !.data = r.data,
                                     !.existing = {e.token_value : e \in Range(r.data.tokens)}]
             /\ ppc' = MoAt(ploc.keys)
             /\ UNCHANGED <<pin, pres>>
    /\ UNCHANGED <<sandbox, cacheVars, regVars, fsVars, apiVars, jsVars, rtVars>>

\* variant that does not skip a token already stored at token:{value}
MoGetEveryKey ==
    /\ ppc = "mo_get"
    /\ LET key == Head(ploc.keys)
           got == StoreGet(store, key) IN
        IF got.some /\ ParseToken(got.v).ok
        THEN /\ ploc' = [ploc EXCEPT !.bytes = got.v]
             /\ ppc' = "mo_set"
        ELSE /\ ploc' = [ploc EXCEPT !.keys = Tail(@)]
             /\ ppc' = MoAt(Tail(ploc.keys))
    /\ UNCHANGED <<pin, pres, sandbox, cacheVars, regVars, fsVars, apiVars, jsVars, rtVars>>

\* self.store.get(&key).await returns for the key at the head
MoGet ==
    /\ ppc = "mo_get"
    /\ LET key == Head(ploc.keys)
           got == StoreGet(store, key) IN
        IF got.some /\ ParseToken(got.v).ok /\ key # <<"token", ParseToken(got.v).tok.token>>
        THEN /\ ploc' = [ploc EXCEPT !.bytes = got.v]
             /\ ppc' = "mo_set"
        ELSE /\ ploc' = [ploc EXCEPT !.keys = Tail(@)]
             /\ ppc' = MoAt(Tail(ploc.keys))
    /\ UNCHANGED <<pin, pres, sandbox, cacheVars, regVars, fsVars, apiVars, jsVars, rtVars>>

\* variant that appends the entry without looking at existing_token_values
MoSetAlwaysPush ==
    /\ ppc = "mo_set"
    /\ LET token == ParseToken(ploc.bytes).tok
           entry == [token_value |-> token.token, name |-> token.name,
                     created_at |-> token.created_at] IN
        /\ store' = StoreSet(store, <<"token", token.token>>, ploc.bytes)
        /\ ploc' = [ploc EXCEPT !.data = PushToken(@, entry)]
    /\ ppc' = "mo_delete"
    /\ UNCHANGED <<pin, pres, sandbox, cache, pc, call, frame, result, minted, created,
                   delCalled, delReturned, calls, regVars, fsVars, apiVars, jsVars, rtVars>>

\* self.store.set(&new_key, &token_bytes).await returns; the entry is pushed
\* unless the value was in the registry when the migration started
MoSet ==
    /\ ppc = "mo_set"
    /\ LET token == ParseToken(ploc.bytes).tok
           entry == [token_value |-> token.token, name |-> token.name,
                     created_at |-> token.created_at] IN
        /\ store' = StoreSet(store, <<"token", token.token>>, ploc.bytes)
        /\ ploc' = [ploc EXCEPT !.data = IF token.token \in ploc.existing THEN @
                                         ELSE PushToken(@, entry)]
    /\ ppc' = "mo_delete"
    /\ UNCHANGED <<pin, pres, sandbox, cache, pc, call, frame, result, minted, created,
                   delCalled, delReturned, calls, regVars, fsVars, apiVars, jsVars, rtVars>>

\* self.store.delete(&key).await returns
MoDelete ==
    /\ ppc = "mo_delete"
    /\ store' = StoreDelete(store, Head(ploc.keys))
    /\ ploc' = [ploc EXCEPT !.keys = Tail(@)]
    /\ ppc' = MoAt(Tail(ploc.keys))
    /\ UNCHANGED <<pin, pres, sandbox, cache, pc, call, frame, result, minted, created,
                   delCalled, delReturned, calls, regVars, fsVars, apiVars, jsVars, rtVars>>

\* self.save(&registry_data).await returns
MoSave ==
    /\ ppc = "mo_save"
    /\ store' = RegistrySave(store, ploc.data)
    /\ PReturnWith(PUnit, RegistrySave(store, ploc.data))
    /\ UNCHANGED <<sandbox, cache, pc, call, frame, result, minted, created, delCalled,
                   delReturned, calls, regVars, fsVars, apiVars, jsVars, rtVars>>

\* the store call the migration awaits (get, set, delete or the save of the
\* registry) returns Err, which `?` returns to the caller; the call wrote
\* nothing
MoFail ==
    /\ ppc \in {"mo_get", "mo_set", "mo_delete", "mo_save"}
    /\ PReturn(PErr("Storage"))
    /\ UNCHANGED <<sandbox, cacheVars, regVars, fsVars, apiVars, jsVars, rtVars>>
(***************************************************************************)
(* Stores the pipeline starts from                                         *)
(***************************************************************************)
PluginOrders == {<<>>, <<"exa">>, <<"s3">>, <<"exa", "s3">>, <<"s3", "exa">>}
CodeVariants == {"absent", "good", "other", "broken"}
CredentialRows == {<<"exa", "api_key">>, <<"s3", "access_key">>}
ValueVariants == {"absent", "utf8", "raw"}

PipePluginEntry(name) ==
    [name |-> name, hosts |-> GoodJs(name).patterns, credential_schema |-> GoodJs(name).schema]

RECURSIVE PluginEntries(_)
PluginEntries(order) ==
    IF order = <<>> THEN <<>> ELSE <<PipePluginEntry(Head(order))>> \o PluginEntries(Tail(order))

CodeOf(name, variant) ==
    IF variant = "good" THEN JsBytes(GoodJs(name))
    ELSE IF variant = "other" THEN JsBytes(OtherJs(name))
    ELSE RawBytes("not utf-8")

\* s with the entries of a set of <<key, value>> pairs added
RECURSIVE WithAll(_, _)
WithAll(s, pairs) ==
    IF pairs = {} THEN s
    ELSE LET p == CHOOSE q \in pairs : TRUE IN WithAll(StoreSet(s, p[1], p[2]), pairs \ {p})

BuiltStore(hasRegistry, order, rows, code, values, hasToken) ==
    LET doc == [DefaultRegistryData EXCEPT
                    !.plugins = PluginEntries(order),
                    !.credentials = CredentialEntries(SortKeys(
                        {CredentialKey(r[1], r[2]) : r \in rows}))]
        tok == NewToken(1, "agent-1") IN
    WithAll(EmptyStore,
            {<<KEY, RegistryJson(doc)>> : x \in {y \in {1} : hasRegistry}}
            \cup {<<PluginKey(n), CodeOf(n, code[n])>> : n \in {m \in PluginNames : code[m] # "absent"}}
            \cup {<<CredentialKey(r[1], r[2]),
                     IF values[r] = "utf8" THEN Utf8("secret") ELSE RawBytes("not utf-8")>> :
                       r \in {q \in CredentialRows : values[q] # "absent"}}
            \cup {<<TokenKey(tok.token), TokenJson(tok)>> : x \in {y \in {1} : hasToken}})

InitPipe ==
    /\ ppc = "idle"
    /\ pin = NoInput
    /\ ploc = NoLocals
    /\ pres = NoResult
    /\ sandbox = 0
    /\ runtimes = <<>>
    /\ dropped = NoGlobals
    /\ InitJs

\* a store with a registry, or the store of an installation that predates it
InitPipeStore ==
    \E hasRegistry \in BOOLEAN, order \in PluginOrders, rows \in SUBSET CredentialRows,
       code \in [PluginNames -> CodeVariants], values \in [CredentialRows -> ValueVariants],
       hasToken \in BOOLEAN :
        /\ hasRegistry \/ (order = <<>> /\ rows = {})
        /\ hasToken => ~hasRegistry
        /\ store = BuiltStore(hasRegistry, order, rows, code, values, hasToken)

(***************************************************************************)
(* Properties of the pipeline                                              *)
(***************************************************************************)
\* the positions at which the call is suspended in an await
AwaitPcs ==
    {"fm_list", "fm_get", "lc_list", "lc_get", "pt_code",
     "mg_tokens", "mg_token_get", "mg_plugins", "mg_plugin_get", "mg_creds", "mg_save"}

\* C6: no PluginRuntime is live while parse_and_transform,
\* find_matching_plugin or migrate_from_file_store is suspended in an await
\* or has returned, and while the runtime of the transform is live every
\* credential registered for the plugin and the plugin code have been read.
C6_NoAwaitWhileSandboxLive ==
    /\ ppc \in AwaitPcs \cup {"idle"} => sandbox = 0
    /\ sandbox \in {0, 1}
    /\ ppc \in {"pt_run", "pt_drop"} =>
          /\ ploc.credq = <<>>
          /\ ploc.credentials # {}
          /\ ploc.code = CodeLossy(StoreGet(store, PluginKey(ploc.plugin.name)).v)

\* the runtime of a transform is live and the transform has run in it
C6_Witness ==
    /\ ppc = "pt_drop"
    /\ sandbox = 1
    /\ ploc.ran = 1
    /\ Len(RegistryDoc.plugins) = 2

\* C10: a parse_and_transform of a well-formed request for a host that no
\* plugin of the registry admits returns the request bytes it was given, and
\* no transform has run.
C10_PassThroughOnNoMatch ==
    (/\ pres.op = "parse_and_transform"
     /\ parse_http_request(pres.request_bytes).ok
     /\ pres.nomatch)
    => (pres.out = POk(pres.request_bytes) /\ pres.ran = 0)

\* a request passed through although plugins are registered and their code
\* loads
C10_Witness ==
    /\ pres.op = "parse_and_transform"
    /\ pres.nomatch
    /\ pres.out = POk(WellFormed)
    /\ Len(RegistryDoc.plugins) = 2
    /\ \A n \in PluginNames : StoredPatterns(store, n) # {}


(***************************************************************************)
(* Stores the token migration starts from                                  *)
(***************************************************************************)
\* where the store holds a token: nowhere, at token:{id}, at token:{value},
\* or at both (a migration that was interrupted before its delete)
Placements == {"absent", "old", "new", "both"}
\* the registry entry of a token: none, one keyed by the value, or the one
\* TokenCache::create writes, keyed by the id
EntryKinds == {"none", "value", "id"}
MigTokens == {1, 2}

EntryOfKind(tok, kind) ==
    IF kind = "id" THEN TokenEntryOf(tok)
    ELSE [token_value |-> tok.token, name |-> tok.name, created_at |-> tok.created_at]

RECURSIVE EntriesOfKinds(_, _)
EntriesOfKinds(n, kinds) ==
    IF n > Cardinality(MigTokens) THEN <<>>
    ELSE (IF kinds[n] = "none" THEN <<>> ELSE <<EntryOfKind(NewToken(n, "agent-1"), kinds[n])>>)
         \o EntriesOfKinds(n + 1, kinds)

TokenStore(place, kinds, hasRegistry, hasJunk) ==
    WithAll(EmptyStore,
        {<<KEY, RegistryJson([DefaultRegistryData EXCEPT !.tokens = EntriesOfKinds(1, kinds)])>> :
            x \in {y \in {1} : hasRegistry}}
        \cup {<<<<"token", NewToken(n, "agent-1").id>>, TokenJson(NewToken(n, "agent-1"))>> :
                n \in {m \in MigTokens : place[m] \in {"old", "both"}}}
        \cup {<<<<"token", NewToken(n, "agent-1").token>>, TokenJson(NewToken(n, "agent-1"))>> :
                n \in {m \in MigTokens : place[m] \in {"new", "both"}}}
        \cup {<<<<"token", "junk">>, RawBytes("not json")>> : x \in {y \in {1} : hasJunk}})

InitTokenStore ==
    \E place \in [MigTokens -> Placements], kinds \in [MigTokens -> EntryKinds],
       hasRegistry \in BOOLEAN, hasJunk \in BOOLEAN :
        /\ \A n \in MigTokens : kinds[n] # "none" => (hasRegistry /\ place[n] # "absent")
        /\ store = TokenStore(place, kinds, hasRegistry, hasJunk)

(***************************************************************************)
(* What a store holds for a host, stated apart from the loops that read it *)
(***************************************************************************)
\* the registry document of a store
PluginsOf(s) == RegistryLoad(s).data.plugins
CredentialsOf(s) == RegistryLoad(s).data.credentials

\* the positions of the registry's plugins list whose stored code loads and
\* has a pattern admitting the host
AdmittingAt(s, host) ==
    {i \in 1..Len(PluginsOf(s)) :
        \E p \in StoredPatterns(s, PluginsOf(s)[i].name) : Admits(p, host)}

\* the fields registered for a plugin whose value is present in the store
FieldsPresent(s, name) ==
    {CredentialsOf(s)[i].field : i \in
        {j \in 1..Len(CredentialsOf(s)) :
            /\ CredentialsOf(s)[j].plugin = name
            /\ StoreGet(s, CredentialKey(name, CredentialsOf(s)[j].field)).some}}

\* C11: a parse_and_transform for which find_matching_plugin gave a plugin
\* that has no registry credential entry with a value present in the store
\* returns the request bytes it was given, and no transform has run.
C11_PassThroughOnNoCredentials ==
    (/\ pres.op = "parse_and_transform"
     /\ pres.found # ""
     /\ FieldsPresent(pres.before, pres.found) = {})
    => (pres.out = POk(pres.request_bytes) /\ pres.ran = 0)

\* a request passed through for a matched plugin whose credential is
\* registered but has no value in the store
C11_Witness ==
    /\ pres.op = "parse_and_transform"
    /\ pres.found = "exa"
    /\ \E i \in 1..Len(CredentialsOf(pres.before)) : CredentialsOf(pres.before)[i].plugin = "exa"
    /\ FieldsPresent(pres.before, "exa") = {}
    /\ pres.out = POk(WellFormed)

\* C12: parse_and_transform of malformed bytes returns an HTTP-parse error,
\* with no plugin looked up and no transform run, whatever the store
\* holds; and the call is never suspended in a registry or store read with
\* bytes that did not parse.
C12_ParseFirst ==
    /\ (pres.op = "parse_and_transform" /\ ~parse_http_request(pres.request_bytes).ok)
          => (pres.out = PErr("HttpParse") /\ pres.found = "" /\ pres.ran = 0)
    /\ pin.op = "parse_and_transform" => parse_http_request(pin.request_bytes).ok

\* malformed bytes were refused for a host that no plugin admits, with two
\* plugins registered
C12_Witness ==
    /\ pres.op = "parse_and_transform"
    /\ pres.request_bytes = Malformed
    /\ pres.out = PErr("HttpParse")
    /\ pres.nomatch
    /\ Len(PluginsOf(pres.before)) = 2

\* the code stored for a plugin is missing or fails to load
Unloadable(s, name) ==
    \/ ~StoreGet(s, PluginKey(name)).some
    \/ ~CodeLossy(StoreGet(s, PluginKey(name)).v).valid

\* a plugin of the registry is registered for the host and its code is
\* missing or fails to load
RegisteredButUnloadable(s, host) ==
    \E i \in 1..Len(PluginsOf(s)) :
        /\ \E p \in PluginsOf(s)[i].hosts : Admits(p, host)
        /\ Unloadable(s, PluginsOf(s)[i].name)

\* C13: a parse_and_transform of a well-formed request for a host that a
\* plugin of the registry is registered for returns a Plugin error when that
\* plugin's code is missing from the store or fails to load, and when the
\* transform that ran threw; it does not return the original bytes.
C13_PluginErrorsSurfaced ==
    /\ (/\ pres.op = "parse_and_transform"
        /\ parse_http_request(pres.request_bytes).ok
        /\ RegisteredButUnloadable(pres.before, pres.hostname))
       => pres.out = PErr("Plugin")
    /\ (/\ pres.op = "parse_and_transform"
        /\ pres.ran = 1
        /\ CodeLossy(StoreGet(pres.before, PluginKey(pres.found)).v).transform = "throws")
       => pres.out = PErr("Plugin")

\* the first plugin of the registry's list, in stored order, whose code loads
\* and admits the host; "" when there is none
FirstAdmitting(s, host) ==
    IF AdmittingAt(s, host) = {} THEN ""
    ELSE PluginsOf(s)[CHOOSE i \in AdmittingAt(s, host) :
                        \A j \in AdmittingAt(s, host) : i <= j].name

\* C14: the plugin find_matching_plugin gives a well-formed request is the
\* first of the registry's plugins list, in stored order, whose stored code
\* loads and has a pattern admitting the host, and it gives none exactly when
\* no registered plugin with loadable code admits the host.
C14_FirstInRegistryOrder ==
    (pres.op = "parse_and_transform" /\ parse_http_request(pres.request_bytes).ok)
    => pres.found = FirstAdmitting(pres.before, pres.hostname)

\* both registered plugins admit the host and the one stored first, which
\* is not the first by name, was returned
C14_Witness ==
    /\ pres.op = "parse_and_transform"
    /\ Cardinality(AdmittingAt(pres.before, pres.hostname)) = 2
    /\ PluginsOf(pres.before)[1].name = "s3"
    /\ pres.found = "s3"

\* the pairs of a pattern and a host of the model in which the pattern is to
\* admit the host
AdmittedPairs ==
    {<<<<"api", "exa", "ai">>, <<"API", "exa", "ai">>>>,
     <<<<"*", "exa", "ai">>, <<"API", "exa", "ai">>>>,
     <<<<"*", "exa", "ai">>, <<"other", "exa", "ai">>>>,
     <<<<"*", "s3", "amazonaws", "com">>, <<"bucket", "s3", "amazonaws", "com">>>>}

KeysUnder(s, prefix) == {k \in DOMAIN s : k[1] = prefix}

\* the registry entries the keys of a store call for
TokenEntryFor(s, k) ==
    [token_value |-> s[k].tok.token, name |-> s[k].tok.name, created_at |-> s[k].tok.created_at]
PluginEntryFor(s, k) ==
    [name |-> k[2], hosts |-> CodeLossy(s[k]).patterns,
     credential_schema |-> CodeLossy(s[k]).schema]
CredentialEntryFor(k) == [plugin |-> k[2], field |-> k[3]]

\* C18: a migrate_from_file_store that started from a store without
\* `_registry` leaves a version-1 registry whose tokens are the entries of the
\* `token:` keys, whose plugins are one entry per `plugin:` key (hosts and
\* credential_schema as the code exposes them) and whose credentials are one
\* entry per `credential:{plugin}:{field}` key, with nothing else in it, and
\* leaves every other key as it was.
C18_MigrationBuildsRegistry ==
    (pres.op = "migrate_from_file_store" /\ ~StoreGet(pres.before, KEY).some)
    => LET doc == RegistryLoad(pres.after).data
           s == pres.before IN
       /\ RegistryLoad(pres.after).ok
       /\ StoreGet(pres.after, KEY).some
       /\ doc.version = 1
       /\ Len(doc.tokens) = Cardinality(KeysUnder(s, "token"))
       /\ Range(doc.tokens) = {TokenEntryFor(s, k) : k \in KeysUnder(s, "token")}
       /\ Len(doc.plugins) = Cardinality(KeysUnder(s, "plugin"))
       /\ Range(doc.plugins) = {PluginEntryFor(s, k) : k \in KeysUnder(s, "plugin")}
       /\ Len(doc.credentials) = Cardinality(KeysUnder(s, "credential"))
       /\ Range(doc.credentials) = {CredentialEntryFor(k) : k \in KeysUnder(s, "credential")}
       /\ \A k \in DOMAIN s : StoreGet(pres.after, k) = Some(s[k])
       /\ DOMAIN pres.after = DOMAIN s \cup {KEY}

\* C19: a migrate_from_file_store that started from a store holding
\* `_registry` returns Ok with the registry document and every key of the
\* store as they were, and the migration reads and writes nothing further.
C19_MigrationSkipsExistingRegistry ==
    /\ (pres.op = "migrate_from_file_store" /\ StoreGet(pres.before, KEY).some)
          => (pres.out = PUnit /\ pres.after = pres.before)
    /\ pin.op = "migrate_from_file_store" => ~StoreGet(pin.before, KEY).some

\* a migration returned from a store whose registry lists no plugin while
\* the store holds plugin code and a credential
C19_Witness ==
    /\ pres.op = "migrate_from_file_store"
    /\ StoreGet(pres.before, KEY).some
    /\ PluginsOf(pres.before) = <<>>
    /\ KeysUnder(pres.before, "plugin") # {}
    /\ KeysUnder(pres.before, "credential") # {}
    /\ pres.after = pres.before

(***************************************************************************)
(* Properties of migrate_old_token_format                                  *)
(***************************************************************************)
\* the token values stored under the token: keys of a store, the keys
\* holding a value, and the number of registry entries for it
TokenValuesIn(s) ==
    {s[k].tok.token : k \in {q \in KeysUnder(s, "token") : ParseToken(s[q]).ok}}
KeysHolding(s, v) ==
    {k \in KeysUnder(s, "token") : ParseToken(s[k]).ok /\ s[k].tok.token = v}
EntriesFor(s, v) ==
    Cardinality({i \in 1..Len(RegistryLoad(s).data.tokens) :
                    RegistryLoad(s).data.tokens[i].token_value = v})

\* store a is store s with its old-format token keys migrated
OldKeysMigrated(s, a) ==
    /\ \A v \in TokenValuesIn(s) :
          /\ \A k \in KeysHolding(s, v) :
                /\ StoreGet(a, <<"token", v>>) = Some(s[k])
                /\ k # <<"token", v>> => k \notin DOMAIN a
          /\ EntriesFor(a, v) =
                IF EntriesFor(s, v) = 0 /\ KeysHolding(s, v) # {<<"token", v>>}
                THEN 1 ELSE EntriesFor(s, v)
    /\ SubSeq(RegistryLoad(a).data.tokens, 1, Len(RegistryLoad(s).data.tokens))
          = RegistryLoad(s).data.tokens
    /\ \A k \in DOMAIN s : k[1] # "token" /\ k # KEY => StoreGet(a, k) = Some(s[k])
    /\ \A k \in KeysUnder(s, "token") : ~ParseToken(s[k]).ok => StoreGet(a, k) = Some(s[k])

MaxRequests == 3

\* ---- request bodies
\* SHA512(password) as sent by two clients
Sha512s == {"sha_a", "sha_b"}
\* the fields a JSON body carries besides password_hash: none, or both the
\* name of CreateTokenRequest and the value of SetCredentialRequest
NotJson == [json |-> FALSE, pw |-> "", data |-> "none"]
NoPasswordHash == [json |-> TRUE, pw |-> "", data |-> "name, value"]
AuthBody(pw, data) == [json |-> TRUE, pw |-> pw, data |-> data]
Bodies ==
    {NotJson, NoPasswordHash, AuthBody("sha_a", "none")}
    \cup {AuthBody(pw, "name, value") : pw \in Sha512s}
PathIds == {"u1", "u9"}

\* serde_json::from_slice::<AuthenticatedRequest<T>>(body) for the T of the
\* endpoint: CreateTokenRequest needs name, SetCredentialRequest needs value,
\* InitRequest and serde_json::Value need nothing more
ParsesAs(endpoint, body) ==
    /\ body.json
    /\ body.pw # ""
    /\ endpoint \in {"create_token", "set_credential"} => body.data = "name, value"

\* Argon2::hash_password(password, salt) as a PHC string, and
\* Argon2::verify_password against a parsed PHC string; SaltString::generate
\* draws a fresh salt for every request that gets that far
hash_password(pw, salt) == [alg |-> "argon2id", salt |-> salt, of |-> pw]
verify_password(pw, hash) == hash.of = pw
NoHash == [alg |-> "", salt |-> 0, of |-> ""]

\* ---- handler state
NoRequest ==
    [endpoint |-> "none", body |-> NotJson, stored |-> None, id |-> "", hash |-> NoHash,
     token |-> NoToken]
NoResponse ==
    [task |-> "", endpoint |-> "none", body |-> NotJson, stored |-> None, id |-> "",
     status |-> 0, listed |-> {}]

InitApi ==
    /\ password_hash = None
    /\ tokens = {}
    /\ apc = [t \in Tasks |-> "idle"]
    /\ areq = [t \in Tasks |-> NoRequest]
    /\ aresp = NoResponse
    /\ aminted = 0
    /\ hashWrites = 0
    /\ initOk = 0
    /\ acalls = 0

\* a request is received by an idle task
Receive(t) ==
    /\ apc[t] = "idle"
    /\ acalls < MaxRequests
    /\ acalls' = acalls + 1

\* the handler of task t answers; stored is the password hash the handler read
Respond(t, endpoint, body, stored, id, status, listed) ==
    /\ aresp' = [task |-> t, endpoint |-> endpoint, body |-> body, stored |-> stored,
                 id |-> id, status |-> status, listed |-> listed]
    /\ apc' = [apc EXCEPT ![t] = "idle"]
    /\ areq' = [areq EXCEPT ![t] = NoRequest]

\* the handler of task t goes on to its next await
Proceed(t, endpoint, body, id, hash, token, at) ==
    /\ areq' = [areq EXCEPT ![t] =
                   [endpoint |-> endpoint, body |-> body, stored |-> password_hash, id |-> id,
                    hash |-> hash, token |-> token]]
    /\ apc' = [apc EXCEPT ![t] = at]
    /\ aresp' = aresp

\* the request in progress is answered
Reply(t, status, listed) ==
    Respond(t, areq[t].endpoint, areq[t].body, areq[t].stored, areq[t].id, status, listed)

(***************************************************************************)
(* GET /status                                                             *)
(***************************************************************************)
GetStatus(t) ==
    /\ Receive(t)
    /\ Respond(t, "status", NotJson, password_hash, "", 200, {})
    /\ UNCHANGED <<password_hash, tokens, aminted, hashWrites, initOk>>
    /\ UNCHANGED <<cacheVars, regVars, fsVars, pipeVars>>

(***************************************************************************)
(* POST /init                                                              *)
(***************************************************************************)
\* state.password_hash.read().await is granted: the check, then the body is
\* parsed and the password hashed, up to the await of set_password_hash
InitCheck(t, body) ==
    /\ Receive(t)
    /\ IF password_hash.some
       THEN Respond(t, "init", body, password_hash, "", 409, {})
       ELSE IF ~ParsesAs("init", body)
       THEN Respond(t, "init", body, password_hash, "", 400, {})
       ELSE Proceed(t, "init", body, "", hash_password(body.pw, acalls + 1), NoToken,
                    "init_set")
    /\ UNCHANGED <<password_hash, tokens, aminted, hashWrites, initOk>>
    /\ UNCHANGED <<cacheVars, regVars, fsVars, pipeVars>>

\* ApiState::set_password_hash: the write lock is granted
InitSetHash(t) ==
    /\ apc[t] = "init_set"
    /\ password_hash' = Some(areq[t].hash)
    /\ hashWrites' = hashWrites + 1
    /\ apc' = [apc EXCEPT ![t] = "init_export"]
    /\ UNCHANGED <<tokens, areq, aresp, aminted, initOk, acalls>>
    /\ UNCHANGED <<cacheVars, regVars, fsVars, pipeVars>>

CaKey == <<"ca", "private_key">>
ExportOutcomes == {"ok", "generate failed", "write failed"}

\* CertificateAuthority::generate, store.set("ca:private_key"), the export
\* of the certificate, and the response
InitExport(t) ==
    /\ apc[t] = "init_export"
    /\ \E outcome \in ExportOutcomes :
          /\ store' = IF outcome = "generate failed" THEN store
                      ELSE StoreSet(store, CaKey, RawBytes(<<"ca key", areq[t].hash.salt>>))
          /\ Reply(t, IF outcome = "ok" THEN 200 ELSE 500, {})
          /\ initOk' = IF outcome = "ok" THEN initOk + 1 ELSE initOk
    /\ UNCHANGED <<password_hash, tokens, aminted, hashWrites, acalls>>
    /\ UNCHANGED <<cache, pc, call, frame, result, minted, created, delCalled, delReturned, calls>>
    /\ UNCHANGED <<regVars, fsVars, pipeVars>>

(***************************************************************************)
(* verify_auth and the endpoints behind it                                 *)
(***************************************************************************)
\* variant that lets every request through while no password hash is set
verify_auth_open(endpoint, body) ==
    IF ~ParsesAs(endpoint, body) THEN 400
    ELSE IF ~password_hash.some THEN 0
    ELSE IF ~verify_password(body.pw, password_hash.v) THEN 401
    ELSE 0

\* verify_auth: the status it rejects the request with, 0 when it returns Ok
verify_auth(endpoint, body) ==
    IF ~ParsesAs(endpoint, body) THEN 400
    ELSE IF ~password_hash.some THEN 401
    ELSE IF ~verify_password(body.pw, password_hash.v) THEN 401
    ELSE 0

\* a handler that answers right after verify_auth
Gate(t, endpoint, body, id) ==
    /\ Receive(t)
    /\ Respond(t, endpoint, body, password_hash, id,
               IF verify_auth(endpoint, body) = 0 THEN 200 ELSE verify_auth(endpoint, body), {})
    /\ UNCHANGED <<password_hash, tokens, aminted, hashWrites, initOk>>
    /\ UNCHANGED <<cacheVars, regVars, fsVars, pipeVars>>

\* a handler that awaits a lock of ApiState after verify_auth
GateThen(t, endpoint, body, id, token, at) ==
    /\ Receive(t)
    /\ IF verify_auth(endpoint, body) = 0
       THEN Proceed(t, endpoint, body, id, NoHash, token, at)
       ELSE Respond(t, endpoint, body, password_hash, id, verify_auth(endpoint, body), {})
    /\ UNCHANGED <<password_hash, tokens, hashWrites, initOk>>
    /\ UNCHANGED <<cacheVars, regVars, fsVars, pipeVars>>

\* GET and POST /plugins
GetPlugins(t, body) == Gate(t, "plugins", body, "")

\* POST /credentials/:plugin/:key
SetCredential(t, body) == Gate(t, "set_credential", body, "")

\* DELETE /credentials/:plugin/:key
DeleteCredential(t, body) == Gate(t, "delete_credential", body, "")

\* GET and POST /tokens, up to state.tokens.read().await
ListTokens(t, body) ==
    /\ GateThen(t, "list_tokens", body, "", NoToken, "list_read")
    /\ aminted' = aminted

\* the read lock is granted: the tokens are listed
ListTokensRead(t) ==
    /\ apc[t] = "list_read"
    /\ Reply(t, 200, {x.id : x \in tokens})
    /\ UNCHANGED <<password_hash, tokens, aminted, hashWrites, initOk, acalls>>
    /\ UNCHANGED <<cacheVars, regVars, fsVars, pipeVars>>

\* POST /tokens/create, up to state.tokens.write().await
CreateToken(t, body) ==
    /\ aminted < MaxTokens
    /\ GateThen(t, "create_token", body, "", NewToken(aminted + 1, "agent-1"), "create_insert")
    /\ aminted' = IF verify_auth("create_token", body) = 0 THEN aminted + 1 ELSE aminted

\* the write lock is granted: tokens.insert(token.id, token)
CreateTokenInsert(t) ==
    /\ apc[t] = "create_insert"
    /\ tokens' = {x \in tokens : x.id # areq[t].token.id} \cup {areq[t].token}
    /\ Reply(t, 200, {areq[t].token.id})
    /\ UNCHANGED <<password_hash, aminted, hashWrites, initOk, acalls>>
    /\ UNCHANGED <<cacheVars, regVars, fsVars, pipeVars>>

\* DELETE /tokens/:id, up to state.tokens.write().await
DeleteToken(t, id, body) ==
    /\ GateThen(t, "delete_token", body, id, NoToken, "delete_remove")
    /\ aminted' = aminted

\* the write lock is granted: tokens.remove(&id)
DeleteTokenRemove(t) ==
    /\ apc[t] = "delete_remove"
    /\ tokens' = {x \in tokens : x.id # areq[t].id}
    /\ Reply(t, IF \E x \in tokens : x.id = areq[t].id THEN 200 ELSE 404, {})
    /\ UNCHANGED <<password_hash, aminted, hashWrites, initOk, acalls>>
    /\ UNCHANGED <<cacheVars, regVars, fsVars, pipeVars>>

\* GET and POST /activity, up to state.activity.read().await
GetActivity(t, body) ==
    /\ GateThen(t, "activity", body, "", NoToken, "activity_read")
    /\ aminted' = aminted

\* the read lock is granted: the activity log, which nothing appends to
GetActivityRead(t) ==
    /\ apc[t] = "activity_read"
    /\ Reply(t, 200, {})
    /\ UNCHANGED <<password_hash, tokens, aminted, hashWrites, initOk, acalls>>
    /\ UNCHANGED <<cacheVars, regVars, fsVars, pipeVars>>

(***************************************************************************)
(* Properties of the management API                                        *)
(***************************************************************************)
\* C16: at most one POST /init is answered 200, the password hash is written
\* at most once, and a POST /init received while a password hash is present
\* is answered 409.
C16_InitOneShot ==
    /\ initOk <= 1
    /\ hashWrites <= 1
    /\ (aresp.endpoint = "init" /\ aresp.stored.some) => aresp.status = 409

\* the endpoints behind verify_auth
Gated ==
    {"plugins", "set_credential", "delete_credential", "list_tokens", "create_token",
     "delete_token", "activity"}

\* the positions at which a handler has passed verify_auth and performs its action
ActPcs == {"list_read", "create_insert", "delete_remove", "activity_read"}

\* the password_hash of the body verifies against the hash the handler read
Verified(body, stored) == stored.some /\ stored.v.of = body.pw

\* C17: on an endpoint other than /status and /init, a handler performs its
\* action and answers 200 or 404 only for a well-formed request whose
\* password_hash verifies against the stored hash; a well-formed request gets
\* 401 when no hash is stored or the hash does not verify, and a malformed
\* body gets 400.
C17_AuthGate ==
    /\ \A t \in Tasks :
          apc[t] \in ActPcs =>
              /\ ParsesAs(areq[t].endpoint, areq[t].body)
              /\ Verified(areq[t].body, areq[t].stored)
    /\ aresp.endpoint \in Gated =>
          /\ aresp.status \in {200, 404} =>
                /\ ParsesAs(aresp.endpoint, aresp.body)
                /\ Verified(aresp.body, aresp.stored)
          /\ (ParsesAs(aresp.endpoint, aresp.body) /\ ~Verified(aresp.body, aresp.stored))
                => aresp.status = 401
          /\ ~ParsesAs(aresp.endpoint, aresp.body) => aresp.status = 400

\* after an init, a token was created with the right password and a request
\* with another password was refused
C17_Witness ==
    /\ tokens # {}
    /\ aresp.endpoint = "delete_token"
    /\ aresp.body.pw = "sha_b"
    /\ aresp.stored = Some(hash_password("sha_a", 1))
    /\ aresp.status = 401

(***************************************************************************)
(* Both migrations run at startup, in any order and any number of times    *)
(***************************************************************************)
\* an installation that predates the registry or has one: tokens at old or
\* new keys, with or without the code of plugin exa and its credential
InitStartupStore ==
    \E place \in [MigTokens -> Placements], kinds \in [MigTokens -> EntryKinds],
       hasRegistry \in BOOLEAN, hasJunk \in BOOLEAN, code \in CodeVariants,
       hasCredential \in BOOLEAN :
        /\ \A n \in MigTokens : kinds[n] # "none" => (hasRegistry /\ place[n] # "absent")
        /\ store = WithAll(TokenStore(place, kinds, hasRegistry, hasJunk),
                       {<<PluginKey("exa"), CodeOf("exa", code)>> :
                            x \in {y \in {1} : code # "absent"}}
                       \cup {<<CredentialKey("exa", "api_key"), Utf8("secret")>> :
                            x \in {y \in {1} : hasCredential}})

\* C21: a run of migrate_from_file_store or of migrate_old_token_format that
\* follows a completed run of the same migration returns with the store,
\* registry document included, as the first run left it, and the store is
\* that same store at every step of the second run.
C21_MigrationsIdempotent ==
    /\ (/\ pres.op \in Migrations
        /\ pres.out = PUnit
        /\ pres.prior.op = pres.op
        /\ pres.prior.out = PUnit
        /\ pres.prior.after = pres.before)
       => pres.after = pres.before
    /\ (pin.op \in Migrations /\ pres.op = pin.op /\ pres.out = PUnit)
       => (pin.before = pres.after /\ store = pres.after)

\* a second migrate_old_token_format returned on a FileStore after a first
\* run that moved a token to token:{value} and wrote the registry
C21_Witness ==
    /\ pres.op = "migrate_old_token_format"
    /\ pres.out = PUnit
    /\ backend = "fs"
    /\ pres.prior.op = pres.op
    /\ pres.prior.out = PUnit
    /\ <<"token", "u1">> \in DOMAIN pres.prior.before
    /\ <<"token", "u1">> \notin DOMAIN pres.prior.after
    /\ ~StoreGet(pres.prior.before, KEY).some
    /\ pres.prior.after = pres.before
    /\ pres.after = pres.before

(***************************************************************************)
(* Properties of the Registry with a single caller                         *)
(***************************************************************************)
HasRegistryKey(s) == <<"_registry">> \in DOMAIN s

\* C22: load() on a store without `_registry` returns Ok with the document
\* version 1 and no tokens, plugins or credentials, and leaves the store
\* without the key (so do the list operations); the key appears only
\* through a save or a mutation, and each of these leaves it present.
C22_LazyCreation ==
    \A t \in SeqTasks :
        LET r == result[t] IN
        /\ (r.kind = "loaded" /\ ~HasRegistryKey(r.before)) =>
              /\ r.ok
              /\ r.data = [version |-> 1, tokens |-> <<>>, plugins |-> <<>>, credentials |-> <<>>]
              /\ r.after = r.before
        /\ (r.kind = "listed" /\ ~HasRegistryKey(r.before)) =>
              (r.ok /\ r.list = <<>> /\ r.after = r.before)
        /\ (r.kind \in {"loaded", "listed", "saved", "mutated"}
            /\ ~HasRegistryKey(r.before) /\ HasRegistryKey(r.after))
              => r.kind \in {"saved", "mutated"}
        /\ r.kind \in {"saved", "mutated"} => HasRegistryKey(r.after)

\* a load returned on a store that has never held `_registry`
C22_Witness ==
    \E t \in SeqTasks :
        /\ result[t].kind = "loaded"
        /\ result[t].ok
        /\ ~HasRegistryKey(result[t].before)
        /\ ~HasRegistryKey(store)

DocIn(s) == RegistryLoad(s).data

\* the entry an add operation was called with
AddedEntry(m) ==
    IF m.op = "add_token" THEN RegTokenEntry(m.a)
    ELSE IF m.op = "add_plugin" THEN RegPluginEntry(m.a)
    ELSE RegCredentialEntry(m.a, m.b)

\* positions of a list that hold an entry with the primary key of entry e
SameKey(op, list, e) ==
    {i \in 1..Len(list) :
        IF op = "add_token" THEN list[i].token_value = e.token_value
        ELSE IF op = "add_plugin" THEN list[i].name = e.name
        ELSE list[i].plugin = e.plugin /\ list[i].field = e.field}

\* C24: when add_token, add_plugin or add_credential has returned, the
\* collection it adds to is the list the store held when the call read it
\* with the new entry as its last element, one longer than before whether
\* or not an entry with the same primary key was listed; the version and the
\* two other collections are as before.
C24_AddAppends ==
    \A t \in SeqTasks :
        LET r == result[t] IN
        (r.kind = "mutated" /\ r.m.op \in {"add_token", "add_plugin", "add_credential"}) =>
            LET old == r.loaded
                new == DocIn(r.after)
                e == AddedEntry(r.m) IN
            /\ RegistryLoad(r.after).ok
            /\ new.version = old.version
            /\ new.tokens = IF r.m.op = "add_token" THEN old.tokens \o <<e>> ELSE old.tokens
            /\ new.plugins = IF r.m.op = "add_plugin" THEN old.plugins \o <<e>> ELSE old.plugins
            /\ new.credentials =
                  IF r.m.op = "add_credential" THEN old.credentials \o <<e>> ELSE old.credentials
            /\ Len(new.tokens) + Len(new.plugins) + Len(new.credentials)
                  = Len(old.tokens) + Len(old.plugins) + Len(old.credentials) + 1

\* add_token returned for a value the registry already listed twice
C24_Witness ==
    \E t \in SeqTasks :
        LET r == result[t] IN
        /\ r.kind = "mutated"
        /\ r.m.op = "add_token"
        /\ r.loaded = DocIn(r.before)
        /\ Cardinality(SameKey("add_token", r.loaded.tokens, AddedEntry(r.m))) = 2
        /\ Cardinality(SameKey("add_token", DocIn(r.after).tokens, AddedEntry(r.m))) = 3
        /\ Len(DocIn(r.after).tokens) = 4

\* a is b with some elements left out, the others in their order
RECURSIVE IsSubseq(_, _)
IsSubseq(a, b) ==
    IF a = <<>> THEN TRUE
    ELSE IF b = <<>> THEN FALSE
    ELSE IF Head(a) = Head(b) THEN IsSubseq(Tail(a), Tail(b))
    ELSE IsSubseq(a, Tail(b))

\* entry e has the primary key a remove operation was called with
Removed(m, e) ==
    IF m.op = "remove_token" THEN e.token_value = m.a
    ELSE IF m.op = "remove_plugin" THEN e.name = m.a
    ELSE e.plugin = m.a /\ e.field = m.b

\* the collection a remove operation works on
Targeted(m, doc) ==
    IF m.op = "remove_token" THEN doc.tokens
    ELSE IF m.op = "remove_plugin" THEN doc.plugins
    ELSE doc.credentials

\* C25: when remove_token(v), remove_plugin(n) or remove_credential(p, f)
\* has returned, the collection holds no entry with that primary key, every
\* other entry of the list the call read is still there, in the same
\* relative order and as many times as before (so a key that was absent
\* leaves the list as it was), and the version and the two other collections
\* are unchanged.
C25_RemoveFilters ==
    \A t \in SeqTasks :
        LET r == result[t] IN
        (r.kind = "mutated" /\ r.m.op \in {"remove_token", "remove_plugin", "remove_credential"}) =>
            LET old == Targeted(r.m, r.loaded)
                new == Targeted(r.m, DocIn(r.after))
                hits == {i \in 1..Len(old) : Removed(r.m, old[i])} IN
            /\ RegistryLoad(r.after).ok
            /\ \A i \in 1..Len(new) : ~Removed(r.m, new[i])
            /\ Len(new) = Len(old) - Cardinality(hits)
            /\ IsSubseq(new, old)
            /\ hits = {} => new = old
            /\ DocIn(r.after).version = r.loaded.version
            /\ r.m.op # "remove_token" => DocIn(r.after).tokens = r.loaded.tokens
            /\ r.m.op # "remove_plugin" => DocIn(r.after).plugins = r.loaded.plugins
            /\ r.m.op # "remove_credential" => DocIn(r.after).credentials = r.loaded.credentials

\* remove_credential(exa, api_key) returned on a list that held the key
\* twice, beside a credential of the same plugin and one of the same field
C25_Witness ==
    \E t \in SeqTasks :
        LET r == result[t] IN
        /\ r.kind = "mutated"
        /\ r.m = Mutation("remove_credential", "exa", "api_key")
        /\ r.loaded = DocIn(r.before)
        /\ r.loaded.credentials = DupDoc.credentials
        /\ DocIn(r.after).credentials =
              <<RegCredentialEntry("exa", "secret"), RegCredentialEntry("s3", "api_key")>>

(***************************************************************************)
(* Properties of the plugin runtime                                        *)
(***************************************************************************)
\* HMAC-SHA-256 of the messages under the keys, as computed by a reference
\* implementation: the bytes, their lowercase hex form and their padded
\* base64 form in the standard alphabet
\* the 32 bytes
ReferenceMac(key, data) ==
    CASE key = "key" /\ data = "message" ->
            <<110, 158, 242, 155, 117, 255, 252, 91, 122, 186, 229, 39, 213, 143, 218, 219, 47, 228, 46, 114, 25, 1, 25, 118, 145, 115, 67, 6, 95, 88, 237, 74>>
      [] key = "key" /\ data = "m2" ->
            <<67, 252, 133, 89, 91, 83, 171, 77, 155, 140, 205, 70, 137, 78, 84, 180, 125, 68, 182, 14, 43, 109, 39, 156, 126, 199, 122, 4, 89, 51, 224, 179>>
      [] key = "k2" /\ data = "message" ->
            <<136, 205, 249, 31, 127, 209, 138, 223, 49, 55, 82, 194, 182, 253, 93, 92, 210, 179, 201, 63, 39, 92, 212, 72, 126, 90, 206, 91, 51, 189, 176, 10>>
      [] key = "k2" /\ data = "m2" ->
            <<249, 237, 58, 98, 191, 129, 54, 143, 251, 11, 187, 71, 13, 39, 187, 213, 39, 210, 188, 190, 39, 231, 58, 139, 13, 105, 229, 25, 167, 26, 220, 166>>
      [] OTHER -> <<>>
\* lowercase hexadecimal
ReferenceHex(key, data) ==
    CASE key = "key" /\ data = "message" ->
            <<"6", "e", "9", "e", "f", "2", "9", "b", "7", "5", "f", "f", "f", "c", "5", "b",
             "7", "a", "b", "a", "e", "5", "2", "7", "d", "5", "8", "f", "d", "a", "d", "b",
             "2", "f", "e", "4", "2", "e", "7", "2", "1", "9", "0", "1", "1", "9", "7", "6",
             "9", "1", "7", "3", "4", "3", "0", "6", "5", "f", "5", "8", "e", "d", "4", "a">>
      [] key = "key" /\ data = "m2" ->
            <<"4", "3", "f", "c", "8", "5", "5", "9", "5", "b", "5", "3", "a", "b", "4", "d",
             "9", "b", "8", "c", "c", "d", "4", "6", "8", "9", "4", "e", "5", "4", "b", "4",
             "7", "d", "4", "4", "b", "6", "0", "e", "2", "b", "6", "d", "2", "7", "9", "c",
             "7", "e", "c", "7", "7", "a", "0", "4", "5", "9", "3", "3", "e", "0", "b", "3">>
      [] key = "k2" /\ data = "message" ->
            <<"8", "8", "c", "d", "f", "9", "1", "f", "7", "f", "d", "1", "8", "a", "d", "f",
             "3", "1", "3", "7", "5", "2", "c", "2", "b", "6", "f", "d", "5", "d", "5", "c",
             "d", "2", "b", "3", "c", "9", "3", "f", "2", "7", "5", "c", "d", "4", "4", "8",
             "7", "e", "5", "a", "c", "e", "5", "b", "3", "3", "b", "d", "b", "0", "0", "a">>
      [] key = "k2" /\ data = "m2" ->
            <<"f", "9", "e", "d", "3", "a", "6", "2", "b", "f", "8", "1", "3", "6", "8", "f",
             "f", "b", "0", "b", "b", "b", "4", "7", "0", "d", "2", "7", "b", "b", "d", "5",
             "2", "7", "d", "2", "b", "c", "b", "e", "2", "7", "e", "7", "3", "a", "8", "b",
             "0", "d", "6", "9", "e", "5", "1", "9", "a", "7", "1", "a", "d", "c", "a", "6">>
      [] OTHER -> <<>>
\* RFC 4648 section 4, padded
ReferenceBase64(key, data) ==
    CASE key = "key" /\ data = "message" ->
            <<"b", "p", "7", "y", "m", "3", "X", "/", "/", "F", "t", "6", "u", "u", "U", "n",
             "1", "Y", "/", "a", "2", "y", "/", "k", "L", "n", "I", "Z", "A", "R", "l", "2",
             "k", "X", "N", "D", "B", "l", "9", "Y", "7", "U", "o", "=">>
      [] key = "key" /\ data = "m2" ->
            <<"Q", "/", "y", "F", "W", "V", "t", "T", "q", "0", "2", "b", "j", "M", "1", "G",
             "i", "U", "5", "U", "t", "H", "1", "E", "t", "g", "4", "r", "b", "S", "e", "c",
             "f", "s", "d", "6", "B", "F", "k", "z", "4", "L", "M", "=">>
      [] key = "k2" /\ data = "message" ->
            <<"i", "M", "3", "5", "H", "3", "/", "R", "i", "t", "8", "x", "N", "1", "L", "C",
             "t", "v", "1", "d", "X", "N", "K", "z", "y", "T", "8", "n", "X", "N", "R", "I",
             "f", "l", "r", "O", "W", "z", "O", "9", "s", "A", "o", "=">>
      [] key = "k2" /\ data = "m2" ->
            <<"+", "e", "0", "6", "Y", "r", "+", "B", "N", "o", "/", "7", "C", "7", "t", "H",
             "D", "S", "e", "7", "1", "S", "f", "S", "v", "L", "4", "n", "5", "z", "q", "L",
             "D", "W", "n", "l", "G", "a", "c", "a", "3", "K", "Y", "=">>
      [] OTHER -> <<>>

\* the text a key or message argument stands for
TextOf(v) ==
    IF v.t = "string" THEN v.s ELSE IF v = JsArray(<<107, 101, 121>>) THEN "key" ELSE "none"

\* the script was a call of ACP.crypto.hmac with a key and a message it accepts
HmacReturned ==
    /\ executed.ran
    /\ executed.script.ast.node = "call"
    /\ executed.script.ast.callee = AcpCryptoHmac
    /\ TextOf(executed.script.ast.args[1]) # "none"

\* the encoding argument of the call, "omitted" when there are two arguments
EncodingOf(args) == IF Len(args) >= 3 THEN args[3] ELSE [t |-> "omitted"]

\* C30: ACP.crypto.hmac returns the lowercase hex string of the MAC when
\* encoding is omitted or "hex", its padded standard base64 string when
\* encoding is "base64", and the array of its bytes for "bytes" and every
\* other string, the empty string included.
C30_HmacEncoding ==
    HmacReturned =>
        LET args == executed.script.ast.args
            key == TextOf(args[1])
            data == TextOf(args[2])
            encoding == EncodingOf(args)
            returned == executed.outcome
        IN  /\ encoding.t \in {"omitted", "undefined"} \/ encoding = JsStr("hex") =>
                  returned = Value(JsText(ReferenceHex(key, data)))
            /\ encoding = JsStr("base64") =>
                  returned = Value(JsText(ReferenceBase64(key, data)))
            /\ encoding.t = "string" /\ encoding.s \notin {"hex", "base64"} =>
                  returned = Value(JsArray(ReferenceMac(key, data)))

\* the name an expression starts from
RECURSIVE HeadName(_)
HeadName(e) ==
    IF e.node = "id" THEN e.name
    ELSE IF e.node = "member"
    THEN IF e.object = Id("globalThis") THEN e.property ELSE HeadName(e.object)
    ELSE HeadName(e.callee)

NeutralizedNames == {"fetch", "eval", "Function", "WebAssembly"}
Blocked(outcome) == outcome.kind = "throw" \/ outcome.v = Undefined

\* C29: in a newly constructed PluginRuntime every script that starts from
\* fetch, eval, Function or WebAssembly throws or evaluates to undefined, so
\* that no script gets a working network, evaluation or bytecode primitive
\* through these names.
C29_SandboxIsolation ==
    executed.ran /\ HeadName(executed.script.ast) \in NeutralizedNames =>
        Blocked(executed.outcome)

\* the script was ACP.util.hex(data), which hex-encodes the bytes of data
HexReturned ==
    /\ executed.ran
    /\ executed.script.source = "ACP.util.hex(data)"

\* n reduced modulo 256
Mod256(n) == n % 256

\* C31: a data argument that is an array-like object of length n with
\* numeric entries is converted to n bytes, byte i being entry i modulo 256;
\* a string is converted to its UTF-8 bytes; any other value, and an object
\* with a non-numeric entry, is a type error.
C31_InputConversion ==
    HexReturned =>
        LET data == executed.script.ast.args[1]
            returned == executed.outcome
        IN  IF data.t = "string"
            THEN returned = Value(JsText(hex_encode(into_bytes(data.s))))
            ELSE IF /\ data.t = "array-like"
                    /\ data.length.t = "number"
                    /\ \A i \in 1..data.length.n :
                          i <= Len(data.entries) /\ data.entries[i].t = "number"
            THEN returned = Value(JsText(hex_encode(
                                [i \in 1..data.length.n |-> Mod256(data.entries[i].n)])))
            ELSE returned.kind = "throw" /\ returned.error = "TypeError"

(***************************************************************************)
(* Properties of the runtimes the pipeline and the migration construct     *)
(***************************************************************************)
\* the plugin whose code the live runtime was constructed for
PluginInHand ==
    IF ppc \in {"fm_load", "fm_drop"} THEN Head(ploc.entries).name
    ELSE IF ppc \in {"pt_run", "pt_drop"} THEN ploc.plugin.name
    ELSE Head(ploc.keys)[2]

\* C32: plugin code is evaluated, and a transform run, only in a runtime that
\* was constructed for it and holds no global of earlier plugin code; the
\* globals it then holds come from that plugin alone, and no runtime outlives
\* the load or the transform it was constructed for.
C32_FreshContext ==
    /\ ppc \in {"fm_load", "pt_run", "mg_extract"} => runtimes = <<NoGlobals>>
    /\ ppc \in {"fm_drop", "pt_drop", "mg_drop"} =>
          /\ Len(runtimes) = 1
          /\ \A g \in runtimes[1] : g[2] = PluginInHand
    /\ ppc \notin {"fm_load", "pt_run", "mg_extract", "fm_drop", "pt_drop", "mg_drop"} =>
          runtimes = <<>>

\* a later request is about to load a plugin after an earlier request ran a
\* transform and another plugin's code left globals in its own runtime
C32_Witness ==
    /\ ppc = "fm_load"
    /\ pres.ran > 0
    /\ \E g \in dropped : g[2] # Head(ploc.entries).name

(***************************************************************************)
(* Properties of load_cache over a store an earlier run left               *)
(***************************************************************************)
\* the tokens an earlier run registered
SeededTokens ==
    <<NewToken(Len(IdPool), "agent-4"),
      [id |-> "u8", token |-> "acp_8", name |-> "agent-8", created_at |-> 0],
      [id |-> "u9", token |-> "acp_9", name |-> "agent-9", created_at |-> 0]>>
\* what the store holds for a registered token: its JSON, nothing, or bytes
\* that are no AgentToken
EntryStates == {"stored", "missing", "unreadable"}

\* the registry lists every seeded token; the store holds each as its state says
LoadStore(states) ==
    LET doc == [DefaultRegistryData EXCEPT
                   !.tokens = [i \in 1..Len(SeededTokens) |-> TokenEntryOf(SeededTokens[i])]]
        put(s, i) == IF states[i] = "stored"
                     THEN StoreSet(s, TokenKey(SeededTokens[i].id), TokenJson(SeededTokens[i]))
                     ELSE IF states[i] = "unreadable"
                     THEN StoreSet(s, TokenKey(SeededTokens[i].id), RawBytes("no token"))
                     ELSE s
    IN  put(put(put(RegistrySave(EmptyStore, doc), 1), 2), 3)

InitLoadStore == \E states \in [1..Len(SeededTokens) -> EntryStates] : store = LoadStore(states)

\* a registry entry whose store value is missing, and one whose value does
\* not deserialize
MissingEntry(s) ==
    \E e \in Range(RegistryLoad(s).data.tokens) : TokenKey(e.token_value) \notin DOMAIN s
UnreadableEntry(s) ==
    \E e \in Range(RegistryLoad(s).data.tokens) :
        TokenKey(e.token_value) \in DOMAIN s /\ ~ParseToken(s[TokenKey(e.token_value)]).ok

\* C33: with a single caller, no call fails, and every get_by_token and list
\* is answered from the tokens of exactly those registry entries whose store
\* value is present and deserializes; entries whose value is missing or
\* unreadable are left out.
C33_LoadSkipsBadEntries ==
    \A t \in SeqTasks :
        /\ result[t].kind # "err"
        /\ pc[t] = Idle /\ result[t].kind \in {"list", "opt"} =>
              AnsweredFrom(result[t], TokensIn(store))

\* a list has returned the readable tokens of a registry that also has an
\* entry without a store value and an entry with an unreadable one
C33_Witness ==
    \E t \in SeqTasks :
        /\ pc[t] = Idle
        /\ result[t].kind = "list"
        /\ result[t].list # {}
        /\ MissingEntry(store)
        /\ UnreadableEntry(store)

(***************************************************************************)
(* The two startup migrations, one after the other                         *)
(***************************************************************************)
\* a store that predates the registry: no `_registry`, every token at its
\* old key token:{id}
Legacy(s) ==
    /\ ~StoreGet(s, KEY).some
    /\ \A k \in KeysUnder(s, "token") :
          ParseToken(s[k]).ok /\ k = <<"token", ParseToken(s[k]).tok.id>>

\* the last two completed calls were the two migrations, one each, the
\* second starting from the store the first left
BothMigrationsRan ==
    /\ pres.op \in Migrations
    /\ pres.out = PUnit
    /\ pres.prior.op \in Migrations \ {pres.op}
    /\ pres.prior.out = PUnit
    /\ pres.prior.after = pres.before

\* the registry lists every token, plugin and credential of the legacy
\* store s and the store after holds every token at token:{value}
FullyMigrated(s, after) ==
    LET doc == RegistryLoad(after).data IN
    /\ RegistryLoad(after).ok
    /\ Range(doc.tokens) = {TokenEntryFor(s, k) : k \in KeysUnder(s, "token")}
    /\ {p.name : p \in Range(doc.plugins)}
          = {k[2] : k \in {x \in KeysUnder(s, "plugin") : CodeLossy(s[x]).valid}}
    /\ Range(doc.credentials) = {CredentialEntryFor(k) : k \in KeysUnder(s, "credential")}
    /\ KeysUnder(after, "token") = {<<"token", s[k].tok.token>> : k \in KeysUnder(s, "token")}
    /\ \A k \in KeysUnder(s, "token") : StoreGet(after, <<"token", s[k].tok.token>>) = Some(s[k])

\* C34: on a FileStore, once migrate_old_token_format and
\* migrate_from_file_store have both run to completion from a legacy store,
\* in either order, the registry lists every token by value, every plugin
\* and every credential of that store and every token is stored at
\* token:{value}; the two orders therefore end in the same registry and store.
C34_MigrationsCommute ==
    (backend = "fs" /\ BothMigrationsRan /\ Legacy(pres.prior.before))
    => FullyMigrated(pres.prior.before, pres.after)

\* the same for the order migrate_from_file_store, migrate_old_token_format
FileStoreThenOldFormat ==
    (/\ backend = "fs" /\ BothMigrationsRan /\ Legacy(pres.prior.before)
     /\ pres.op = "migrate_old_token_format")
    => FullyMigrated(pres.prior.before, pres.after)

\* both orders completed from a legacy store holding two tokens, the code of
\* a plugin and a credential
OldFormatFirst ==
    /\ backend = "fs" /\ BothMigrationsRan /\ Legacy(pres.prior.before)
    /\ pres.op = "migrate_from_file_store"
    /\ Cardinality(KeysUnder(pres.prior.before, "token")) = 2
    /\ KeysUnder(pres.prior.before, "plugin") # {}
    /\ KeysUnder(pres.prior.before, "credential") # {}

(***************************************************************************)
(* migrate_old_token_format interrupted and run again                      *)
(***************************************************************************)
\* the tokens the store holds under `token:` keys
TokensOf(s) == {ParseToken(s[k]).tok : k \in {x \in KeysUnder(s, "token") : ParseToken(s[x]).ok}}

\* every token stored at token:{value} is listed in the registry by value
NewKeysRegistered(s) ==
    \A t \in TokensOf(s) :
        StoreGet(s, <<"token", t.token>>).some
        => (RegistryLoad(s).ok
            /\ \E e \in Range(RegistryLoad(s).data.tokens) : e.token_value = t.token)

\* a migrate_old_token_format returned Ok after one that returned an error
RerunAfterError ==
    /\ pres.op = "migrate_old_token_format"
    /\ pres.out = PUnit
    /\ pres.prior.op = "migrate_old_token_format"
    /\ pres.prior.out = PErr("Storage")
    /\ pres.prior.after = pres.before

\* C35: on a FileStore whose tokens at token:{value} are all registered,
\* when migrate_old_token_format returns an error and is then run again to
\* completion, every token the store held before the first run is listed
\* in the final registry by its value and stored at token:{value}.
C35_MigrationCrashSafe ==
    (backend = "fs" /\ RerunAfterError /\ NewKeysRegistered(pres.prior.before))
    => \A t \in TokensOf(pres.prior.before) :
          /\ StoreGet(pres.after, <<"token", t.token>>).some
          /\ RegistryLoad(pres.after).ok
          /\ \E e \in Range(RegistryLoad(pres.after).data.tokens) : e.token_value = t.token

\* the same when the first run is not interrupted
UninterruptedMigrationRegisters ==
    (/\ backend = "fs" /\ pres.op = "migrate_old_token_format" /\ pres.out = PUnit
     /\ NewKeysRegistered(pres.before))
    => \A t \in TokensOf(pres.before) :
          /\ StoreGet(pres.after, <<"token", t.token>>).some
          /\ \E e \in Range(RegistryLoad(pres.after).data.tokens) : e.token_value = t.token

\* a rerun after an error that came after a write
RerunAfterWrite ==
    /\ backend = "fs" /\ RerunAfterError /\ NewKeysRegistered(pres.prior.before)
    /\ pres.prior.after # pres.prior.before

(***************************************************************************)
(* migrate_old_token_format and duplicate registry rows                    *)
(***************************************************************************)
\* the store of InitTokenStore with a second old-format key, token:u1b,
\* that holds the bytes of the first token
InitTwinStore ==
    \E place \in [MigTokens -> Placements], kinds \in [MigTokens -> EntryKinds],
       hasRegistry \in BOOLEAN, hasTwin \in BOOLEAN :
        /\ \A n \in MigTokens : kinds[n] # "none" => (hasRegistry /\ place[n] # "absent")
        /\ store = WithAll(TokenStore(place, kinds, hasRegistry, FALSE),
                       {<<<<"token", "u1b">>, TokenJson(NewToken(1, "agent-1"))>> :
                            x \in {y \in {1} : hasTwin}})

\* no two entries of the registry's token list have the same token_value
NoDuplicateRows(s) ==
    LET rows == RegistryLoad(s).data.tokens IN
    \A i, j \in 1..Len(rows) : rows[i].token_value = rows[j].token_value => i = j

\* C36: when migrate_old_token_format returns Ok from a store whose registry
\* token list has no two entries with the same token_value, the list has no
\* two such entries afterwards, whatever `token:` keys the store held.
C36_NoDuplicateRows ==
    (pres.op = "migrate_old_token_format" /\ pres.out = PUnit /\ NoDuplicateRows(pres.before))
    => NoDuplicateRows(pres.after)

\* a migration returned from a store with two old-format keys of one value
TwoKeysOfOneValue ==
    /\ pres.op = "migrate_old_token_format" /\ pres.out = PUnit /\ backend = "fs"
    /\ NoDuplicateRows(pres.before)
    /\ {<<"token", "u1">>, <<"token", "u1b">>} \subseteq KeysHolding(pres.before, "acp_1")

(***************************************************************************)
(* POST /init that fails                                                   *)
(***************************************************************************)
\* no handler is running and no /init has answered 200
NeverInitialized == (\A t \in Tasks : apc[t] = "idle") /\ initOk = 0

\* C37: while no handler is running and no /init has succeeded, after an
\* /init answered with an error status (400 or 500) the stored password hash
\* is absent, so that the check of a later /init does not answer 409.
C37_FailedInitLeavesUninitialized ==
    (NeverInitialized /\ aresp.endpoint = "init" /\ aresp.status \in {400, 500})
    => ~password_hash.some

\* the same for the failures that come before set_password_hash
MalformedInitLeavesUninitialized ==
    (NeverInitialized /\ aresp.endpoint = "init" /\ aresp.status = 400) => ~password_hash.some

(***************************************************************************)
(* TokenCache::create and TokenCache::delete that return an error          *)
(***************************************************************************)
\* the `token:` keys of the store and the token entries of the registry
\* name the same tokens
EntriesMatchKeys(s) ==
    {k[2] : k \in KeysUnder(s, "token")}
        = {e.token_value : e \in Range(RegistryLoad(s).data.tokens)}

\* the caller's last call returned an error
ReturnedError(t) == pc[t] = Idle /\ result[t].kind = "err"

\* C38: when create or delete of the only caller has returned an error, the
\* store holds no `token:` entry without a registry entry and the registry
\* no entry without its store entry.
C38_WritesAllOrNothing ==
    \A t \in SeqTasks : ReturnedError(t) => EntriesMatchKeys(store)

\* between calls none of which failed, entries and keys match
CompletedCallsKeepMatch ==
    \A t \in SeqTasks : pc[t] = Idle => EntriesMatchKeys(store)

(***************************************************************************)
(* Credentials handed to a plugin's transform                              *)
(***************************************************************************)
\* the credential keys in use: each plugin with each field name
CredRows == PluginNames \X {"api_key", "access_key"}

\* the value stored for a credential row, different for every row
SecretOf(r) == Utf8(<<"secret of", r[1], r[2]>>)

\* a store with the code of both plugins, a registry that lists them and the
\* credential rows registered, and a value for each of the rows present
CredStore(registered, present) ==
    LET doc == [DefaultRegistryData EXCEPT
                    !.plugins = PluginEntries(<<"exa", "s3">>),
                    !.credentials = CredentialEntries(SortKeys(
                        {CredentialKey(r[1], r[2]) : r \in registered}))] IN
    WithAll(EmptyStore,
            {<<KEY, RegistryJson(doc)>>}
            \cup {<<PluginKey(n), CodeOf(n, "good")>> : n \in PluginNames}
            \cup {<<CredentialKey(r[1], r[2]), SecretOf(r)>> : r \in present})

InitCredStore ==
    \E registered \in SUBSET CredRows, present \in SUBSET CredRows :
        store = CredStore(registered, present)

\* the fields registered for a plugin in store s whose value s holds at
\* credential:{plugin}:{field}, each with that value
RegisteredAndStored(s, plugin) ==
    {<<e.field, StoreGet(s, CredentialKey(plugin, e.field)).v.utf8>> :
        e \in {x \in Range(RegistryLoad(s).data.credentials) :
                  x.plugin = plugin /\ StoreGet(s, CredentialKey(plugin, x.field)).some}}

\* C39: the credentials parse_and_transform passes to the transform of the
\* matched plugin are exactly the fields that have a registry credential
\* entry for that plugin and a value in the store at
\* credential:{plugin}:{field}, each with that value; no value stored for
\* another plugin is among them.
C39_CredentialIsolation ==
    ppc \in {"pt_run", "pt_drop"}
    => /\ ploc.credentials = RegisteredAndStored(pin.before, ploc.plugin.name)
       /\ \A c \in ploc.credentials :
             \A r \in CredRows : r[1] # ploc.plugin.name => c[2] # SecretOf(r).utf8

\* the transform of exa ran with its api_key alone, while the registry also
\* lists exa's access_key, which has no value, and s3's api_key, which has
\* one, and the store holds a value at an unregistered key of exa
C39_Witness ==
    /\ ppc = "pt_drop"
    /\ ploc.ran = 1
    /\ ploc.plugin.name = "exa"
    /\ ploc.credentials = {<<"api_key", SecretOf(<<"exa", "api_key">>).utf8>>}
    /\ StoreGet(pin.before, CredentialKey("s3", "api_key")).some
    /\ \E e \in Range(RegistryLoad(pin.before).data.credentials) :
          e.plugin = "s3" /\ e.field = "api_key"
    /\ \E e \in Range(RegistryLoad(pin.before).data.credentials) :
          e.plugin = "exa" /\ e.field = "access_key"
    /\ ~StoreGet(pin.before, CredentialKey("exa", "access_key")).some

(***************************************************************************)
(* The code matched and the code executed                                  *)
(***************************************************************************)
\* C40: the plugin code parse_and_transform loads and runs the transform of,
\* with the credentials of the matched plugin, is the code whose
\* matchPatterns admitted the destination host, also when another task
\* replaces or removes the plugin's store entry during the request.
C40_MatchExecuteConsistency ==
    ppc \in {"pt_run", "pt_drop"} => ploc.code = ploc.admitted

\* the same while no other task has written the plugin's entry
UnreplacedCodeIsTheCodeMatched ==
    (/\ ppc \in {"pt_run", "pt_drop"}
     /\ StoreGet(store, PluginKey(ploc.plugin.name)) = Some(CodeOf(ploc.plugin.name, "good")))
    => ploc.code = ploc.admitted

\* a request was matched by the code stored, which was then replaced, and
\* the replacement was run with the credentials of the plugin
ReplacementRan ==
    /\ ppc = "pt_drop"
    /\ ploc.ran = 1
    /\ ploc.credentials # {}
    /\ ploc.code # ploc.admitted
    /\ ~matches_host(load_plugin_from_code(ploc.plugin.name, ploc.code).plugin, pin.hostname)

(***************************************************************************)
(* Another task writes the store while a request is in the pipeline        *)
(***************************************************************************)
\* what a plugin's entry is replaced by: other code, bytes that are no code,
\* or nothing (the entry is deleted)
Replacements == {"other", "broken", "absent"}

\* store.set("plugin:{name}", code) or store.delete("plugin:{name}") by
\* another task, once per plugin, at any point of a request
PluginWrite(name, variant) ==
    /\ StoreGet(store, PluginKey(name)) = Some(CodeOf(name, "good"))
    /\ store' = IF variant = "absent" THEN StoreDelete(store, PluginKey(name))
                ELSE StoreSet(store, PluginKey(name), CodeOf(name, variant))
    /\ UNCHANGED <<cache, pc, call, frame, result, minted, created, delCalled, delReturned, calls>>
    /\ UNCHANGED <<regVars, fsVars, pipeVars, apiVars>>

\* stores holding the code of both plugins, each with its credential
\* registered, and a value for either, both or neither
InitReplaceStore ==
    \E present \in SUBSET CredentialRows : store = CredStore(CredentialRows, present)
(***************************************************************************)
(* Specifications                                                          *)
(***************************************************************************)

\* one caller of one TokenCache, any history
NextSeq ==
    \E t \in SeqTasks :
        \/ \E v \in ArgPool : ReadStart(t, "get_by_token", v, "seq")
        \/ ReadStart(t, "list", "", "seq")
        \/ ReadAgain(t)
        \/ LoadList(t)
        \/ LoadGet(t)
        \/ LoadInstall(t)
        \/ \E name \in Names : CreateStart(t, name, "seq")
        \/ CreateRegLoad(t)
        \/ CreateRegSave(t)
        \/ CreateInvalidate(t)
        \/ \E id \in ArgPool : DeleteStart(t, id, "seq")
        \/ DeleteCheckAgain(t)
        \/ DeleteStore(t)
        \/ DeleteRegLoad(t)
        \/ DeleteRegSave(t)
        \/ DeleteInvalidate(t)
        \/ Invalidate(t, "seq")

\* one caller of one TokenCache whose store and registry calls may fail
NextSeqFail ==
    \/ NextSeq
    \/ \E t \in SeqTasks : CacheFail(t)

\* two tasks sharing one TokenCache
NextConc ==
    \E t \in ConcTasks :
        \/ \E v \in ArgPool : ReadStart(t, "get_by_token", v, "conc")
        \/ ReadStart(t, "list", "", "conc")
        \/ ReadAgain(t)
        \/ LoadList(t)
        \/ LoadGet(t)
        \/ LoadInstall(t)
        \/ \E name \in Names : CreateStart(t, name, "conc")
        \/ CreateRegLoad(t)
        \/ CreateRegSave(t)
        \/ CreateInvalidate(t)
        \/ \E id \in ArgPool : DeleteStart(t, id, "conc")
        \/ DeleteCheckAgain(t)
        \/ DeleteStore(t)
        \/ DeleteRegLoad(t)
        \/ DeleteRegSave(t)
        \/ DeleteInvalidate(t)
        \/ Invalidate(t, "conc")

\* the writes a caller makes behind the cache
DirectWrites(t, mode) ==
    \/ \E name \in Names : DirectSet(t, name, mode)
    \/ \E id \in MintedIds : RegAddToken(t, id)
    \/ RegSaveStep(t)

\* one caller of one TokenCache that also writes to its store and registry
NextSeqDirect == NextSeq \/ \E t \in SeqTasks : DirectWrites(t, "seq")

\* two tasks mutating one Registry
NextReg ==
    \E t \in ConcTasks :
        \/ \E v \in RegTokenValues : RegAddToken(t, v)
        \/ \E v \in RegTokenValues : RegRemoveToken(t, v)
        \/ \E n \in RegPluginNames : RegAddPlugin(t, n)
        \/ \E n \in RegPluginNames : RegRemovePlugin(t, n)
        \/ \E n \in RegPluginNames, f \in RegFields : RegAddCredential(t, n, f)
        \/ \E n \in RegPluginNames, f \in RegFields : RegRemoveCredential(t, n, f)
        \/ RegSaveStep(t)

\* one caller of one Registry
NextRegSeq ==
    \E t \in SeqTasks :
        \/ RegLoad(t)
        \/ \E data \in SaveDocs : RegSave(t, data)
        \/ \E coll \in Collections : RegList(t, coll)
        \/ \E v \in SeqTokenValues : RegAddToken(t, v)
        \/ \E v \in SeqTokenValues : RegRemoveToken(t, v)
        \/ \E n \in SeqPluginNames : RegAddPlugin(t, n)
        \/ \E n \in SeqPluginNames : RegRemovePlugin(t, n)
        \/ \E c \in SeqCredentials : RegAddCredential(t, c[1], c[2])
        \/ \E c \in SeqRemovedCredentials : RegRemoveCredential(t, c[1], c[2])
        \/ RegSaveStep(t)

\* one caller of one FileStore and one KeychainStore; every system call succeeds
NextStoreSeq ==
    \E t \in SeqTasks :
        \/ \E k \in StoreKeys, v \in StoreValues : FsSetOpen(t, k, v, "seq")
        \/ FsSetWrite(t)
        \/ FsSetChmod(t)
        \/ FsSetRename(t)
        \/ \E k \in StoreKeys : FsGetOpen(t, k, "seq")
        \/ FsGetRead(t)
        \/ \E k \in StoreKeys : FsDelete(t, k, "seq")
        \/ \E k \in StoreKeys, v \in StoreValues : KcSetDelete(t, k, v, "seq")
        \/ KcSetInsert(t)
        \/ \E k \in StoreKeys : KcGet(t, k, "seq")
        \/ \E k \in StoreKeys : KcDelete(t, k, "seq")

\* two tasks sharing the stores; every system call is carried out
NextStoreConc ==
    \E t \in ConcTasks :
        \/ \E k \in StoreKeys, v \in StoreValues : FsSetOpen(t, k, v, "conc")
        \/ FsSetWrite(t)
        \/ FsSetChmod(t)
        \/ FsSetRename(t)
        \/ \E k \in StoreKeys : FsGetOpen(t, k, "conc")
        \/ FsGetRead(t)
        \/ \E k \in StoreKeys : FsDelete(t, k, "conc")
        \/ \E k \in StoreKeys, v \in StoreValues : KcSetDelete(t, k, v, "conc")
        \/ KcSetInsert(t)
        \/ \E k \in StoreKeys : KcGet(t, k, "conc")
        \/ \E k \in StoreKeys : KcDelete(t, k, "conc")

\* two tasks sharing the stores; a set may fail or be dropped part-way
NextStoreFail ==
    \E t \in ConcTasks :
        \/ \E k \in StoreKeys, v \in StoreValues : FsSetOpen(t, k, v, "conc")
        \/ FsSetWrite(t)
        \/ FsSetChmod(t)
        \/ FsSetRename(t)
        \/ FsSetFail(t)
        \/ \E k \in StoreKeys : FsGetOpen(t, k, "conc")
        \/ FsGetRead(t)
        \/ \E k \in StoreKeys : FsDelete(t, k, "conc")
        \/ \E k \in StoreKeys, v \in StoreValues : KcSetDelete(t, k, v, "conc")
        \/ KcSetInsert(t)
        \/ KcSetFail(t)
        \/ \E k \in StoreKeys : KcGet(t, k, "conc")
        \/ \E k \in StoreKeys : KcDelete(t, k, "conc")

\* one request or one migration at a time, on a store nothing else writes
NextPipe ==
    \/ \E request_bytes \in Requests, hostname \in Hosts : PtParse(request_bytes, hostname)
    \/ FmListPlugins
    \/ FmGet
    \/ FmSandboxNew
    \/ FmLoadAndMatch
    \/ FmDrop
    \/ LcList
    \/ LcGet
    \/ PtCode
    \/ PtSandboxNew
    \/ PtRun
    \/ PtDrop
    \/ MgCheck
    \/ MgListTokens
    \/ MgTokenGet
    \/ MgListPlugins
    \/ MgPluginGet
    \/ MgSandboxNew
    \/ MgExtract
    \/ MgDrop
    \/ MgListCreds
    \/ MgSave

\* one request at a time, on a store nothing else writes
NextRequests ==
    \/ \E request_bytes \in Requests, hostname \in Hosts : PtParse(request_bytes, hostname)
    \/ FmListPlugins
    \/ FmGet
    \/ FmSandboxNew
    \/ FmLoadAndMatch
    \/ FmDrop
    \/ LcList
    \/ LcGet
    \/ PtCode
    \/ PtSandboxNew
    \/ PtRun
    \/ PtDrop

\* one request at a time, while another task replaces or removes plugin code
NextReplace ==
    \/ NextRequests
    \/ \E name \in PluginNames, variant \in Replacements : PluginWrite(name, variant)

\* two request tasks on one ApiState
NextApi ==
    \E t \in ConcTasks :
        \/ GetStatus(t)
        \/ \E body \in Bodies : InitCheck(t, body)
        \/ InitSetHash(t)
        \/ InitExport(t)
        \/ \E body \in Bodies : GetPlugins(t, body)
        \/ \E body \in Bodies : SetCredential(t, body)
        \/ \E body \in Bodies : DeleteCredential(t, body)
        \/ \E body \in Bodies : ListTokens(t, body)
        \/ ListTokensRead(t)
        \/ \E body \in Bodies : CreateToken(t, body)
        \/ CreateTokenInsert(t)
        \/ \E id \in PathIds, body \in Bodies : DeleteToken(t, id, body)
        \/ DeleteTokenRemove(t)
        \/ \E body \in Bodies : GetActivity(t, body)
        \/ GetActivityRead(t)

\* one token migration at a time, on a store nothing else writes
NextMigrate ==
    \/ MoStart
    \/ MoList
    \/ MoLoad
    \/ MoGet
    \/ MoSet
    \/ MoDelete
    \/ MoSave

\* token migrations whose store calls may fail
NextMigrateFail ==
    \/ NextMigrate
    \/ MoFail

\* the migrations a startup runs, on a store nothing else writes;
\* migrate_from_file_store is handed the FileStore the registry lives in
NextStartup ==
    \/ backend = "fs" /\ MgCheck
    \/ MgListTokens
    \/ MgTokenGet
    \/ MgListPlugins
    \/ MgPluginGet
    \/ MgSandboxNew
    \/ MgExtract
    \/ MgDrop
    \/ MgListCreds
    \/ MgSave
    \/ MoStart
    \/ MoList
    \/ MoLoad
    \/ MoGet
    \/ MoSet
    \/ MoDelete
    \/ MoSave

\* the stores idle, FileStore chosen
InitIdleStore == InitStore /\ backend = "fs"
InitAll == InitCache /\ InitReg /\ InitIdleStore /\ InitPipe /\ InitApi
InitStores == InitCache /\ InitReg /\ InitStore /\ InitPipe /\ InitApi
InitMigrate == InitCacheCalls /\ InitReg /\ InitStore /\ InitPipe /\ InitTokenStore /\ InitApi
InitMigrateTwin == InitCacheCalls /\ InitReg /\ InitStore /\ InitPipe /\ InitTwinStore /\ InitApi
InitCreds == InitCacheCalls /\ InitReg /\ InitIdleStore /\ InitPipe /\ InitCredStore /\ InitApi
InitReplace == InitCacheCalls /\ InitReg /\ InitIdleStore /\ InitPipe /\ InitReplaceStore /\ InitApi
InitRegSeq == InitCacheCalls /\ InitReg /\ InitIdleStore /\ InitPipe /\ InitRegStore /\ InitApi
InitStartup == InitCacheCalls /\ InitReg /\ InitStore /\ InitPipe /\ InitStartupStore /\ InitApi
InitLoad == InitCacheCalls /\ InitReg /\ InitIdleStore /\ InitPipe /\ InitLoadStore /\ InitApi
InitPipeline == InitCacheCalls /\ InitReg /\ InitIdleStore /\ InitPipe /\ InitPipeStore /\ InitApi

SpecSeq == InitAll /\ [][NextSeq]_vars
SpecSeqFail == InitAll /\ [][NextSeqFail]_vars
SpecConc == InitAll /\ [][NextConc]_vars
SpecReg == InitAll /\ [][NextReg]_vars
SpecStoreSeq == InitStores /\ [][NextStoreSeq]_vars
SpecStoreConc == InitStores /\ [][NextStoreConc]_vars
SpecStoreFail == InitStores /\ [][NextStoreFail]_vars
SpecPipe == InitPipeline /\ [][NextPipe]_vars
SpecApi == InitAll /\ [][NextApi]_vars
SpecMigrate == InitMigrate /\ [][NextMigrate]_vars
SpecMigrateFail == InitMigrate /\ [][NextMigrateFail]_vars
SpecMigrateTwin == InitMigrateTwin /\ [][NextMigrate]_vars
SpecCreds == InitCreds /\ [][NextRequests]_vars
SpecReplace == InitReplace /\ [][NextReplace]_vars
SpecStartup == InitStartup /\ [][NextStartup]_vars
SpecRegSeq == InitRegSeq /\ [][NextRegSeq]_vars
SpecSeqDirect == InitAll /\ [][NextSeqDirect]_vars

\* one PluginRuntime at a time, executing scripts
NextRuntime ==
    \/ RuntimeNew
    \/ \E script \in Scripts : RuntimeExecute(script)
    \/ RuntimeDrop

SpecRuntime == InitAll /\ [][NextRuntime]_vars

\* one caller of one TokenCache over a store an earlier run left
SpecLoad == InitLoad /\ [][NextSeq]_vars
====
